---- MODULE Spec2Model ----
(***************************************************************************)
(* State-machine model of resurgence::native (the adaptive buffer query    *)
(* protocol, the enumeration engine and the loader walkers).  Every        *)
(* function is modelled at the granularity of its system calls: one        *)
(* action per call site or loop iteration, with `pc` holding the position  *)
(* in the function that is executing.  A behaviour is one top-level call:  *)
(* it starts in pc = "idle" and ends in pc = "done" (the call returned)    *)
(* or pc = "crashed" (the process was terminated).                         *)
(***************************************************************************)
EXTENDS Integers, Sequences, FiniteSets, TLC

(***************************************************************************)
(* Bounds of the model.                                                    *)
(***************************************************************************)
\* largest size (in abstract units) the kernel reports for system information
MaxNeed == 3
\* largest number of records a system-information buffer holds
MaxRecords == 3
\* largest number of entries of an object directory
MaxDir == 3
\* largest number of nodes of the target's loader list
MaxNodes == 2
\* cap on the node reads of one walk (a malformed list can be walked forever)
MaxReads == 4
\* largest number of bytes one read_memory or write_memory call transfers
MaxBytes == 2
\* largest number of sections of an image
MaxSections == 2

(***************************************************************************)
(* NTSTATUS values (signed 32 bit) and the NT_SUCCESS test.                *)
(***************************************************************************)
STATUS_SUCCESS == 0
STATUS_PENDING == 259
STATUS_PARTIAL_COPY == -2147483635
STATUS_NO_MORE_ENTRIES == -2147483622
STATUS_UNSUCCESSFUL == -1073741823
STATUS_INFO_LENGTH_MISMATCH == -1073741820
STATUS_ACCESS_VIOLATION == -1073741819
STATUS_ACCESS_DENIED == -1073741790
STATUS_BUFFER_TOO_SMALL == -1073741789
STATUS_NO_MEMORY == -1073741801
STATUS_OBJECT_NAME_NOT_FOUND == -1073741772
STATUS_INVALID_IMAGE_FORMAT == -1073741701
STATUS_INVALID_PARAMETER_1 == -1073741585
STATUS_INVALID_PARAMETER_2 == -1073741584
STATUS_NOT_FOUND == -1073741275

NT_SUCCESS(st) == st >= 0

\* the statuses a caller-supplied predicate may answer with
CallbackStatuses == {STATUS_SUCCESS, STATUS_PENDING, STATUS_NOT_FOUND}

VARIABLES
    pc,         \* position in the executing function
    op,         \* the top-level function that was called
    ret,        \* value returned by the top-level call, read once pc = "done"
    heap,       \* every heap allocation made so far: size, number of frees, filled
    fetches,    \* log of the information fetches issued to the kernel
    calls,      \* log of the predicate / callback invocations
    information,\* the information class of the running query
    buffer,     \* query_*_information: local `buffer` (0 is nullptr)
    cb,         \* query_*_information: local `cb`
    qret,       \* value returned by the query function
    callback,   \* enumerators: TRUE iff the callback argument is non-null
    status,     \* enumerators: local `status`
    records,    \* number of records the kernel wrote into the filled buffer
    idx,        \* enumerators: loop position (index i / pProcessEntry)
    root,       \* enumerate_system_objects: TRUE iff `root` is not empty
    dir,        \* the object directory: the size of each of its entries
    hDirectory, \* enumerate_system_objects: "unset", "open" or "closed"
    uEnumCtx,   \* enumerate_system_objects: the continuation cursor
    uBufferSize,\* enumerate_system_objects: local `uBufferSize`
    pObjBuffer, \* enumerate_system_objects: local `pObjBuffer` (0 is nullptr)
    process,    \* loader walkers: the handle, "Local" (current process) or "Remote"
    PebBaseAddress, \* the environment-block address the information query gave
    Initialized,\* target memory: the Initialized flag of its loader data
    Flink,      \* target memory: the forward link stored at each list link
    DllBase,    \* target memory: the base address stored in each list node
    basic_info, \* loader walkers: local `basic_info` (0 is nullptr)
    currentLink,\* loader walkers: local `currentLink`
    reads,      \* log of the read_memory calls of the walk
    mapped,     \* read_memory / write_memory: TRUE iff the address range is accessible
    bytes,      \* read_memory / write_memory: argument `size`
    transferred,\* read_memory / write_memory: the number of bytes copied
    address,    \* process_memory::allocate: local `address`
    fileHandle, \* load_mapped_image: "unset", "open" or "closed" (see NtClose)
    sectionHandle, \* load_mapped_image: "unset", "open" or "closed" (see NtClose)
    views,      \* number of views of the file mapped into the current process
    image,      \* the mapped_image structure
    rva,        \* mapped_image_rva_to_*: argument `rva`
    object,     \* object_exists: the requested name
    Name,       \* the object directory: the name of each of its entries
    found,      \* object_exists: the caller's variable behind `found`
    pid,        \* enumerate_process_threads: argument `pid`
    ThreadCount,\* the process chain: ThreadCount of the record that has `pid`
    tidx,       \* enumerate_process_threads: loop index i of the lambda
    snapshots,  \* target memory: the loader lists it held before each write
    Magic       \* the file: nthdrs->OptionalHeader.Magic as the call read it

qvars == <<information, buffer, cb, qret>>
evars == <<callback, status, records, idx>>
ovars == <<root, dir, hDirectory, uEnumCtx, uBufferSize, pObjBuffer>>
tvars == <<Initialized, Flink, DllBase>>
wvars == <<process, PebBaseAddress, Initialized, Flink, DllBase, basic_info,
           currentLink, reads>>
mvars == <<mapped, bytes, transferred, address>>
ivars == <<fileHandle, sectionHandle, views, image, rva>>
fvars == <<object, Name, found>>
pvars == <<pid, ThreadCount, tidx>>
zvars == <<snapshots, Magic>>
yvars == <<pvars, zvars>>
xvars == <<mvars, ivars, fvars, yvars>>
vars == <<pc, op, ret, heap, fetches, calls, information, buffer, cb, qret,
          callback, status, records, idx, root, dir, hDirectory, uEnumCtx,
          uBufferSize, pObjBuffer, process, PebBaseAddress, Initialized, Flink,
          DllBase, basic_info, currentLink, reads, mapped, bytes, transferred,
          address, fileHandle, sectionHandle, views, image, rva, object, Name,
          found, pid, ThreadCount, tidx, snapshots, Magic>>

NoValue == "none"

(***************************************************************************)
(* The process heap.  A buffer is the index of its allocation in `heap`;   *)
(* 0 is the null pointer.                                                  *)
(***************************************************************************)
Live(h, b) == b \in 1..Len(h) /\ h[b].frees = 0

\* allocate_local_buffer(&p, size): p is the new allocation, or nullptr when
\* the heap cannot satisfy the request (ok = FALSE)
allocate_local_buffer(h, size, ok) ==
    IF ok THEN [heap |-> Append(h, [size |-> size, frees |-> 0, filled |-> FALSE]),
                ptr |-> Len(h) + 1]
          ELSE [heap |-> h, ptr |-> 0]

\* free_local_buffer(p)
free_local_buffer(h, b) ==
    IF b \in 1..Len(h) THEN [h EXCEPT ![b].frees = @ + 1] ELSE h

MarkFilled(h, b) ==
    IF b \in 1..Len(h) THEN [h EXCEPT ![b].filled = TRUE] ELSE h

Fetch(fn, b, len, need, st) ==
    [fn |-> fn, buf |-> b, len |-> len, ctx |-> uEnumCtx,
     live |-> Live(heap, b),
     cap |-> IF b \in 1..Len(heap) THEN heap[b].size ELSE 0,
     need |-> need, st |-> st]

(***************************************************************************)
(* query_system_information                                                *)
(***************************************************************************)
\* the kernel's answer to NtQuerySystemInformation(information, buf, len, &cb)
\* when the data needs `need` units and `err` says whether the call is refused
NtQuerySystemInformation(b, len, need, err) ==
    IF err THEN STATUS_ACCESS_DENIED
    ELSE IF len < need THEN STATUS_INFO_LENGTH_MISMATCH
    ELSE IF b = 0 THEN STATUS_ACCESS_VIOLATION
    ELSE STATUS_SUCCESS

\* the system information classes the enumerators ask for
SystemClasses == {"SystemModuleInformation", "SystemExtendedProcessInformation"}

\* the numbers of records a filled buffer of the class can hold: a module
\* array has a count field, a process chain has at least its terminal record
RecordCounts(class) ==
    IF class = "SystemModuleInformation" THEN 0..MaxRecords ELSE 1..MaxRecords

\* a retry that is made for the first size mismatch only
QsiRetries_Once(st) == st = STATUS_INFO_LENGTH_MISMATCH /\ fetches = <<>>

\* if(status == STATUS_INFO_LENGTH_MISMATCH) { free; allocate; continue; }
QsiRetries(st) == st = STATUS_INFO_LENGTH_MISMATCH

\* top-level call of query_system_information
QsiCall ==
    /\ pc = "idle"
    /\ pc' = "qsi_size"
    /\ op' = "qsi"
    /\ information' \in SystemClasses
    /\ UNCHANGED <<ret, heap, fetches, calls, buffer, cb, qret, evars, ovars, wvars>>
    /\ UNCHANGED xvars

\* size_t cb = query_required_size(information)
QsiRequiredSize ==
    /\ pc = "qsi_size"
    /\ \E need \in 1..MaxNeed, err \in BOOLEAN :
         LET st == NtQuerySystemInformation(0, 0, need, err)
         IN cb' = IF st # STATUS_INFO_LENGTH_MISMATCH THEN 0 ELSE need
    /\ pc' = "qsi_alloc"
    /\ UNCHANGED <<op, ret, heap, fetches, calls, information, buffer, qret,
                   evars, ovars, wvars>>
    /\ UNCHANGED xvars

\* allocate_local_buffer(&buffer, cb); if(!buffer) return nullptr;
QsiAllocate ==
    /\ pc = "qsi_alloc"
    /\ \E ok \in BOOLEAN :
         LET a == allocate_local_buffer(heap, cb, ok)
         IN /\ heap' = a.heap
            /\ buffer' = a.ptr
            /\ IF a.ptr = 0
                 THEN pc' = "qsi_ret" /\ qret' = 0
                 ELSE pc' = "qsi_fetch" /\ qret' = qret
    /\ UNCHANGED <<op, ret, fetches, calls, information, cb, evars, ovars, wvars>>
    /\ UNCHANGED xvars

\* one iteration of the do-while up to the test of the status
QsiFetch ==
    /\ pc = "qsi_fetch"
    /\ \E need \in 1..MaxNeed, err \in BOOLEAN, n \in RecordCounts(information) :
         LET st == NtQuerySystemInformation(buffer, cb, need, err)
         IN /\ fetches' = Append(fetches, Fetch("qsi", buffer, cb, need, st))
            /\ cb' = IF err THEN cb ELSE need
            /\ IF NT_SUCCESS(st)
                 THEN /\ pc' = "qsi_ret"
                      /\ qret' = buffer
                      /\ heap' = MarkFilled(heap, buffer)
                      /\ records' = n
                 ELSE IF QsiRetries(st)
                 THEN /\ pc' = "qsi_resize"
                      /\ UNCHANGED <<qret, heap, records>>
                 ELSE /\ pc' = "qsi_ret"
                      /\ qret' = 0
                      /\ UNCHANGED <<heap, records>>
    /\ UNCHANGED <<op, ret, calls, information, buffer, callback, status, idx,
                   ovars, wvars>>
    /\ UNCHANGED xvars

\* free_local_buffer(buffer); allocate_local_buffer(&buffer, cb); continue;
QsiResize ==
    /\ pc = "qsi_resize"
    /\ \E ok \in BOOLEAN :
         LET a == allocate_local_buffer(free_local_buffer(heap, buffer), cb, ok)
         IN /\ heap' = a.heap
            /\ buffer' = a.ptr
    /\ pc' = "qsi_fetch"
    /\ UNCHANGED <<op, ret, fetches, calls, information, cb, qret, evars, ovars, wvars>>
    /\ UNCHANGED xvars

\* return of the top-level call of query_system_information
QsiReturn ==
    /\ pc = "qsi_ret"
    /\ op = "qsi"
    /\ pc' = "done"
    /\ ret' = qret
    /\ UNCHANGED <<op, heap, fetches, calls, qvars, evars, ovars, wvars>>
    /\ UNCHANGED xvars

(***************************************************************************)
(* query_process_information and query_object_information                  *)
(***************************************************************************)
ProcessClasses ==
    {"ProcessBasicInformation", "ProcessHandleCount", "ProcessWow64Information",
     "ProcessImageFileName", "ProcessDebugPort"}

ObjectClasses ==
    {"ObjectBasicInformation", "ObjectNameInformation", "ObjectTypeInformation",
     "ObjectHandleFlagInformation"}

\* query_required_size(PROCESSINFOCLASS), sizes of the 64-bit build; 0 stands
\* for the `throw;` of the default label
query_required_size_process(class) ==
    CASE class = "ProcessBasicInformation" -> 48
      [] class = "ProcessHandleCount" -> 4
      [] class = "ProcessWow64Information" -> 8
      [] class = "ProcessImageFileName" -> 16 + 260 * 2
      [] OTHER -> 0

\* query_required_size(OBJECT_INFORMATION_CLASS)
query_required_size_object(class) ==
    CASE class = "ObjectBasicInformation" -> 56
      [] class = "ObjectNameInformation" -> 4096
      [] class = "ObjectTypeInformation" -> 4096
      [] OTHER -> 0

\* the sizes the kernel can need for a class: the structure size for a fixed
\* class, the length of the name for a class that carries a string
KernelNeeds(class) ==
    CASE class = "ProcessImageFileName" -> {200, 600}
      [] class = "ObjectNameInformation" -> {200, 5000}
      [] class = "ObjectTypeInformation" -> {200}
      [] class \in ProcessClasses -> {query_required_size_process(class)}
      [] OTHER -> {query_required_size_object(class)}

\* the kernel's answer to NtQueryInformationProcess and NtQueryObject
NtQueryInformation(b, len, need, err) ==
    IF err THEN STATUS_ACCESS_DENIED
    ELSE IF len < need THEN STATUS_INFO_LENGTH_MISMATCH
    ELSE IF b = 0 THEN STATUS_ACCESS_VIOLATION
    ELSE STATUS_SUCCESS

\* top-level call of query_process_information
QpiCall ==
    /\ pc = "idle"
    /\ pc' = "qpi_size"
    /\ op' = "qpi"
    /\ information' \in ProcessClasses
    /\ UNCHANGED <<ret, heap, fetches, calls, buffer, cb, qret, evars, ovars, wvars>>
    /\ UNCHANGED xvars

\* size_t cb = query_required_size(information); allocate_local_buffer(&buffer,
\* cb); if(!buffer) return nullptr;
QpiAllocate ==
    /\ pc = "qpi_size"
    /\ IF query_required_size_process(information) = 0
         THEN /\ pc' = "crashed"
              /\ UNCHANGED <<heap, buffer, cb, qret>>
         ELSE \E ok \in BOOLEAN :
                LET size == query_required_size_process(information)
                    a == allocate_local_buffer(heap, size, ok)
                IN /\ cb' = size
                   /\ heap' = a.heap
                   /\ buffer' = a.ptr
                   /\ IF a.ptr = 0
                        THEN pc' = "qpi_ret" /\ qret' = 0
                        ELSE pc' = "qpi_fetch" /\ qret' = qret
    /\ UNCHANGED <<op, ret, fetches, calls, information, evars, ovars, wvars>>
    /\ UNCHANGED xvars

\* status = NtQueryInformationProcess(...); success returns the buffer, every
\* failure frees it and returns nullptr
QpiFetch ==
    /\ pc = "qpi_fetch"
    /\ \E need \in KernelNeeds(information), err \in BOOLEAN :
         LET st == NtQueryInformation(buffer, cb, need, err)
         IN /\ fetches' = Append(fetches, Fetch("qpi", buffer, cb, need, st))
            /\ cb' = IF err THEN cb ELSE need
            /\ IF NT_SUCCESS(st)
                 THEN /\ qret' = buffer
                      /\ heap' = MarkFilled(heap, buffer)
                 ELSE /\ qret' = 0
                      /\ heap' = free_local_buffer(heap, buffer)
    /\ pc' = "qpi_ret"
    /\ UNCHANGED <<op, ret, calls, information, buffer, evars, ovars, wvars>>
    /\ UNCHANGED xvars

\* return of the top-level call of query_process_information
QpiReturn ==
    /\ pc = "qpi_ret"
    /\ op = "qpi"
    /\ pc' = "done"
    /\ ret' = qret
    /\ UNCHANGED <<op, heap, fetches, calls, qvars, evars, ovars, wvars>>
    /\ UNCHANGED xvars

\* top-level call of query_object_information
QoiCall ==
    /\ pc = "idle"
    /\ pc' = "qoi_size"
    /\ op' = "qoi"
    /\ information' \in ObjectClasses
    /\ UNCHANGED <<ret, heap, fetches, calls, buffer, cb, qret, evars, ovars, wvars>>
    /\ UNCHANGED xvars

\* size_t cb = query_required_size(information); allocate_local_buffer(&buffer,
\* cb); if(!buffer) return nullptr;
QoiAllocate ==
    /\ pc = "qoi_size"
    /\ IF query_required_size_object(information) = 0
         THEN /\ pc' = "crashed"
              /\ UNCHANGED <<heap, buffer, cb, qret, ret>>
         ELSE \E ok \in BOOLEAN :
                LET size == query_required_size_object(information)
                    a == allocate_local_buffer(heap, size, ok)
                IN /\ cb' = size
                   /\ heap' = a.heap
                   /\ buffer' = a.ptr
                   /\ IF a.ptr = 0
                        THEN pc' = "done" /\ qret' = 0 /\ ret' = 0
                        ELSE pc' = "qoi_fetch" /\ qret' = qret /\ ret' = ret
    /\ UNCHANGED <<op, fetches, calls, information, evars, ovars, wvars>>
    /\ UNCHANGED xvars

\* status = NtQueryObject(handle, information, buffer, cb, nullptr); success
\* returns the buffer, failure returns nullptr
QoiFetch ==
    /\ pc = "qoi_fetch"
    /\ \E need \in KernelNeeds(information), err \in BOOLEAN :
         LET st == NtQueryInformation(buffer, cb, need, err)
         IN /\ fetches' = Append(fetches, Fetch("qoi", buffer, cb, need, st))
            /\ IF NT_SUCCESS(st)
                 THEN /\ qret' = buffer
                      /\ ret' = buffer
                      /\ heap' = MarkFilled(heap, buffer)
                 ELSE /\ qret' = 0
                      /\ ret' = 0
                      /\ heap' = heap
    /\ pc' = "done"
    /\ UNCHANGED <<op, calls, information, buffer, cb, evars, ovars, wvars>>
    /\ UNCHANGED xvars

(***************************************************************************)
(* enumerate_system_modules                                                *)
(***************************************************************************)
\* an argument check that lets a missing argument through
ArgumentMissing_Never(given) == FALSE

\* if(!callback) return ...; if(root.empty()) return ...;
ArgumentMissing(given) == ~given

\* a predicate answer that never ends the enumeration
PredicateMatched_Never(st) == FALSE

\* status = callback(record); if(NT_SUCCESS(status)) break;
PredicateMatched(st) == NT_SUCCESS(st)

\* if(!callback) return STATUS_INVALID_PARAMETER_1; status = STATUS_SUCCESS;
\* buffer = query_system_information(SystemModuleInformation)
EsmCall ==
    /\ pc = "idle"
    /\ op' = "esm"
    /\ \E c \in BOOLEAN :
         /\ callback' = c
         /\ IF ArgumentMissing(c)
              THEN /\ pc' = "done"
                   /\ ret' = STATUS_INVALID_PARAMETER_1
                   /\ UNCHANGED <<status, information>>
              ELSE /\ pc' = "qsi_size"
                   /\ status' = STATUS_SUCCESS
                   /\ information' = "SystemModuleInformation"
                   /\ ret' = ret
    /\ UNCHANGED <<heap, fetches, calls, buffer, cb, qret, records, idx, ovars, wvars>>
    /\ UNCHANGED xvars

\* if(buffer) { ... } return status;
EsmQueried ==
    /\ pc = "qsi_ret"
    /\ op = "esm"
    /\ IF qret # 0
         THEN /\ pc' = "esm_loop"
              /\ idx' = 0
              /\ ret' = ret
         ELSE /\ pc' = "done"
              /\ ret' = status
              /\ idx' = idx
    /\ UNCHANGED <<op, heap, fetches, calls, qvars, callback, status, records,
                   ovars, wvars>>
    /\ UNCHANGED xvars

\* one test of the for loop and, when it passes, one run of its body
EsmLoop ==
    /\ pc = "esm_loop"
    /\ IF idx < records
         THEN \E st \in CallbackStatuses :
                /\ calls' = Append(calls, [rec |-> idx + 1, st |-> st])
                /\ status' = st
                /\ IF PredicateMatched(st)
                     THEN pc' = "esm_free" /\ idx' = idx
                     ELSE pc' = "esm_loop" /\ idx' = idx + 1
         ELSE /\ pc' = "esm_free"
              /\ UNCHANGED <<calls, status, idx>>
    /\ UNCHANGED <<op, ret, heap, fetches, qvars, callback, records, ovars, wvars>>
    /\ UNCHANGED xvars

\* free_local_buffer(buffer); return status;
EsmFree ==
    /\ pc = "esm_free"
    /\ heap' = free_local_buffer(heap, qret)
    /\ pc' = "done"
    /\ ret' = status
    /\ UNCHANGED <<op, fetches, calls, qvars, evars, ovars, wvars>>
    /\ UNCHANGED xvars

(***************************************************************************)
(* enumerate_processes                                                     *)
(***************************************************************************)
\* the NextEntryDelta field of the k-th record of the chain in the buffer:
\* the distance to the next record, 0 in the last one
NextEntryDelta(k) == IF k < records THEN 1 ELSE 0

\* if(!callback) return STATUS_INVALID_PARAMETER_1; status = STATUS_SUCCESS;
\* buffer = query_system_information(SystemExtendedProcessInformation)
EpCall ==
    /\ pc = "idle"
    /\ op' = "ep"
    /\ \E c \in BOOLEAN :
         /\ callback' = c
         /\ IF ArgumentMissing(c)
              THEN /\ pc' = "done"
                   /\ ret' = STATUS_INVALID_PARAMETER_1
                   /\ UNCHANGED <<status, information>>
              ELSE /\ pc' = "qsi_size"
                   /\ status' = STATUS_SUCCESS
                   /\ information' = "SystemExtendedProcessInformation"
                   /\ ret' = ret
    /\ UNCHANGED <<heap, fetches, calls, buffer, cb, qret, records, idx, ovars, wvars>>
    /\ UNCHANGED xvars

\* if(buffer) { pProcessEntry = buffer; ... } return status;
EpQueried ==
    /\ pc = "qsi_ret"
    /\ op = "ep"
    /\ IF qret # 0
         THEN /\ pc' = "ep_loop"
              /\ idx' = 1
              /\ ret' = ret
         ELSE /\ pc' = "done"
              /\ ret' = status
              /\ idx' = idx
    /\ UNCHANGED <<op, heap, fetches, calls, qvars, callback, status, records,
                   ovars, wvars>>
    /\ UNCHANGED xvars

\* one test of the while loop and, when it passes, one run of its body
EpLoop ==
    /\ pc = "ep_loop"
    /\ op = "ep"
    /\ IF NextEntryDelta(idx) # 0
         THEN \E st \in CallbackStatuses :
                /\ calls' = Append(calls, [rec |-> idx, st |-> st])
                /\ status' = st
                /\ IF PredicateMatched(st)
                     THEN pc' = "ep_free" /\ idx' = idx
                     ELSE pc' = "ep_loop" /\ idx' = idx + NextEntryDelta(idx)
         ELSE /\ pc' = "ep_free"
              /\ UNCHANGED <<calls, status, idx>>
    /\ UNCHANGED <<op, ret, heap, fetches, qvars, callback, records, ovars, wvars>>
    /\ UNCHANGED xvars

\* free_local_buffer(buffer); return status;
EpFree ==
    /\ pc = "ep_free"
    /\ heap' = free_local_buffer(heap, qret)
    /\ pc' = "done"
    /\ ret' = status
    /\ UNCHANGED <<op, fetches, calls, qvars, evars, ovars, wvars>>
    /\ UNCHANGED xvars

(***************************************************************************)
(* enumerate_process_threads: enumerate_processes called with a lambda     *)
(* that walks the thread array of the record whose identifier is `pid`.    *)
(***************************************************************************)
\* largest number of threads of a process record
MaxThreads == 2

\* entry->UniqueProcessId of the k-th record of the chain: identifiers are
\* distinct, so only the place of `pid` in the chain matters
UniqueProcessId(k) == 4 * (k - 1)

\* the identifiers a caller can ask for: each place of the chain, and one
\* that no record has
ProcessIds == {UniqueProcessId(k) : k \in 1..(MaxRecords + 1)}

\* if(!callback) return STATUS_INVALID_PARAMETER_2; then enumerate_processes
\* with the lambda, which is never null: status = STATUS_SUCCESS; buffer =
\* query_system_information(SystemExtendedProcessInformation)
EptCall ==
    /\ pc = "idle"
    /\ op' = "ept"
    /\ pid' \in ProcessIds
    /\ \E c \in BOOLEAN :
         /\ callback' = c
         /\ IF ArgumentMissing(c)
              THEN /\ pc' = "done"
                   /\ ret' = STATUS_INVALID_PARAMETER_2
                   /\ UNCHANGED <<status, information>>
              ELSE /\ pc' = "qsi_size"
                   /\ status' = STATUS_SUCCESS
                   /\ information' = "SystemExtendedProcessInformation"
                   /\ ret' = ret
    /\ UNCHANGED <<heap, fetches, calls, buffer, cb, qret, records, idx, ovars,
                   wvars, mvars, ivars, fvars, ThreadCount, tidx, zvars>>

\* if(buffer) { pProcessEntry = buffer; ... } return status; the filled
\* buffer holds the thread count of the record that has `pid`
EptQueried ==
    /\ pc = "qsi_ret"
    /\ op = "ept"
    /\ IF qret # 0
         THEN /\ pc' = "ep_loop"
              /\ idx' = 1
              /\ ret' = ret
              /\ IF \E k \in 1..records : UniqueProcessId(k) = pid
                   THEN ThreadCount' \in 0..MaxThreads
                   ELSE ThreadCount' = 0
         ELSE /\ pc' = "done"
              /\ ret' = status
              /\ UNCHANGED <<idx, ThreadCount>>
    /\ UNCHANGED <<op, heap, fetches, calls, qvars, callback, status, records,
                   ovars, wvars, mvars, ivars, fvars, pid, tidx, zvars>>

\* one test of the while loop of enumerate_processes and, when it passes, the
\* identifier test of the lambda: STATUS_NOT_FOUND for another process, the
\* thread loop for the process asked for
EptLoop ==
    /\ pc = "ep_loop"
    /\ op = "ept"
    /\ IF NextEntryDelta(idx) # 0
         THEN IF pid = UniqueProcessId(idx)
                THEN /\ pc' = "ept_threads"
                     /\ tidx' = 0
                     /\ UNCHANGED <<status, idx>>
                ELSE /\ status' = STATUS_NOT_FOUND
                     /\ idx' = idx + NextEntryDelta(idx)
                     /\ pc' = "ep_loop"
                     /\ tidx' = tidx
         ELSE /\ pc' = "ep_free"
              /\ UNCHANGED <<status, idx, tidx>>
    /\ UNCHANGED <<op, ret, heap, fetches, calls, qvars, callback, records,
                   ovars, wvars, mvars, ivars, fvars, pid, ThreadCount, zvars>>

\* one test of the for loop of the lambda and, when it passes, one run of its
\* body; when the loop ends the lambda returns STATUS_SUCCESS, which makes
\* enumerate_processes break
EptThread ==
    /\ pc = "ept_threads"
    /\ IF tidx < ThreadCount
         THEN \E st \in CallbackStatuses :
                /\ calls' = Append(calls, [rec |-> idx, thread |-> tidx + 1,
                                           st |-> st])
                /\ IF PredicateMatched(st)
                     THEN /\ status' = STATUS_SUCCESS
                          /\ pc' = "ep_free"
                          /\ tidx' = tidx
                     ELSE /\ pc' = "ept_threads"
                          /\ tidx' = tidx + 1
                          /\ status' = status
         ELSE /\ status' = STATUS_SUCCESS
              /\ pc' = "ep_free"
              /\ UNCHANGED <<calls, tidx>>
    /\ UNCHANGED <<op, ret, heap, fetches, qvars, callback, records, idx, ovars,
                   wvars, mvars, ivars, fvars, pid, ThreadCount, zvars>>

(***************************************************************************)
(* enumerate_system_objects                                                *)
(***************************************************************************)
\* size_t uBufferSize = 0x100
InitialBufferSize == 256

\* the sizes a directory entry (with its strings) can need
DirEntrySizes == {128, 384}

\* the directories the call can be pointed at
Directories == UNION {[1..n -> DirEntrySizes] : n \in 0..MaxDir}

\* the names an object can have
ObjectNames == {"Dev", "DEV", "Tmp"}

\* the names the entries of a directory of n entries can have; names matter
\* to object_exists only
DirectoryNames(n) == IF op = "oe" THEN [1..n -> ObjectNames] ELSE {<<>>}

\* the kernel's answer to NtQueryDirectoryObject(h, buf, len, TRUE, FALSE,
\* &ctx, &len) on directory d
NtQueryDirectoryObject(b, len, ctx, d, err) ==
    IF err THEN STATUS_ACCESS_DENIED
    ELSE IF ctx >= Len(d) THEN STATUS_NO_MORE_ENTRIES
    ELSE IF len < d[ctx + 1] THEN STATUS_BUFFER_TOO_SMALL
    ELSE IF b = 0 THEN STATUS_ACCESS_VIOLATION
    ELSE STATUS_SUCCESS

\* the two argument checks and the initialisation of the locals
EsoCall ==
    /\ pc = "idle"
    /\ op' = "eso"
    /\ \E r \in BOOLEAN, c \in BOOLEAN :
         /\ root' = r
         /\ callback' = c
         /\ IF ArgumentMissing(r)
              THEN /\ pc' = "done"
                   /\ ret' = STATUS_INVALID_PARAMETER_1
                   /\ UNCHANGED <<uEnumCtx, uBufferSize, pObjBuffer>>
              ELSE IF ArgumentMissing(c)
              THEN /\ pc' = "done"
                   /\ ret' = STATUS_INVALID_PARAMETER_2
                   /\ UNCHANGED <<uEnumCtx, uBufferSize, pObjBuffer>>
              ELSE /\ pc' = "eso_open"
                   /\ ret' = ret
                   /\ uEnumCtx' = 0
                   /\ uBufferSize' = InitialBufferSize
                   /\ pObjBuffer' = 0
    /\ UNCHANGED <<heap, fetches, calls, qvars, status, records, idx, dir,
                   hDirectory, wvars>>
    /\ UNCHANGED xvars

\* status = NtOpenDirectoryObject(&hDirectory, DIRECTORY_QUERY, &objAttr);
\* if(!NT_SUCCESS(status) || !hDirectory) return status;
EsoOpen ==
    /\ pc = "eso_open"
    /\ \/ /\ status' = STATUS_OBJECT_NAME_NOT_FOUND
          /\ ret' = STATUS_OBJECT_NAME_NOT_FOUND
          /\ pc' = "done"
          /\ UNCHANGED <<dir, hDirectory, Name>>
       \/ /\ status' = STATUS_SUCCESS
          /\ hDirectory' = "open"
          /\ dir' \in Directories
          /\ Name' \in DirectoryNames(Len(dir'))
          /\ pc' = "eso_alloc"
          /\ ret' = ret
    /\ UNCHANGED <<op, heap, fetches, calls, qvars, callback, records, idx, root,
                   uEnumCtx, uBufferSize, pObjBuffer, wvars>>
    /\ UNCHANGED <<mvars, ivars, object, found>>
    /\ UNCHANGED yvars

\* pObjBuffer = RtlAllocateHeap(heap, 0, uBufferSize)
EsoAllocate ==
    /\ pc = "eso_alloc"
    /\ \E ok \in BOOLEAN :
         LET a == allocate_local_buffer(heap, uBufferSize, ok)
         IN /\ heap' = a.heap
            /\ pObjBuffer' = a.ptr
    /\ pc' = "eso_query"
    /\ UNCHANGED <<op, ret, fetches, calls, qvars, evars, root, dir, hDirectory,
                   uEnumCtx, uBufferSize, wvars>>
    /\ UNCHANGED xvars

\* one query step of the do-while: NtQueryDirectoryObject and the tests of its
\* status; the returned length is written into uBufferSize
EsoQuery ==
    /\ pc = "eso_query"
    /\ \E err \in BOOLEAN, wr \in BOOLEAN :
         LET st == NtQueryDirectoryObject(pObjBuffer, uBufferSize, uEnumCtx, dir, err)
             need == IF uEnumCtx < Len(dir) THEN dir[uEnumCtx + 1] ELSE 0
         IN /\ fetches' = Append(fetches, Fetch("eso", pObjBuffer, uBufferSize, need, st))
            /\ status' = st
            /\ IF NT_SUCCESS(st)
                 THEN /\ uEnumCtx' = uEnumCtx + 1
                      /\ uBufferSize' = need
                      /\ heap' = MarkFilled(heap, pObjBuffer)
                      /\ pc' = IF pObjBuffer = 0 THEN "eso_exit" ELSE "eso_callback"
                 ELSE IF st \in {STATUS_BUFFER_TOO_SMALL, STATUS_INFO_LENGTH_MISMATCH}
                 THEN /\ uBufferSize' = IF wr THEN need ELSE uBufferSize
                      /\ pc' = "eso_resize"
                      /\ UNCHANGED <<uEnumCtx, heap>>
                 ELSE /\ pc' = "eso_exit"
                      /\ UNCHANGED <<uEnumCtx, uBufferSize, heap>>
    /\ UNCHANGED <<op, ret, calls, qvars, callback, records, idx, root, dir,
                   hDirectory, pObjBuffer, wvars>>
    /\ UNCHANGED xvars

\* a resize that starts the enumeration over
CursorAfterResize_Reset(ctx) == 0

\* the too-small branch (lines 282-288) has no assignment to uEnumCtx
CursorAfterResize(ctx) == ctx

\* RtlFreeHeap(pObjBuffer); uBufferSize = uBufferSize * 2; pObjBuffer =
\* RtlAllocateHeap(heap, 0, uBufferSize); continue;
EsoResize ==
    /\ pc = "eso_resize"
    /\ uEnumCtx' = CursorAfterResize(uEnumCtx)
    /\ uBufferSize' = uBufferSize * 2
    /\ \E ok \in BOOLEAN :
         LET a == allocate_local_buffer(free_local_buffer(heap, pObjBuffer),
                                        uBufferSize * 2, ok)
         IN /\ heap' = a.heap
            /\ pObjBuffer' = a.ptr
    /\ pc' = "eso_query"
    /\ UNCHANGED <<op, ret, fetches, calls, qvars, evars, root, dir, hDirectory,
                   wvars>>
    /\ UNCHANGED xvars

\* status = callback(pObjBuffer); if(NT_SUCCESS(status)) break;
EsoCallback ==
    /\ pc = "eso_callback"
    /\ op = "eso"
    /\ \E st \in CallbackStatuses :
         /\ calls' = Append(calls, [rec |-> uEnumCtx, st |-> st])
         /\ status' = st
         /\ pc' = IF PredicateMatched(st) THEN "eso_exit" ELSE "eso_query"
    /\ UNCHANGED <<op, ret, heap, fetches, qvars, callback, records, idx, ovars, wvars>>
    /\ UNCHANGED xvars

\* if(pObjBuffer != nullptr) RtlFreeHeap(pObjBuffer); NtClose(hDirectory);
\* return status;
EsoExit ==
    /\ pc = "eso_exit"
    /\ heap' = free_local_buffer(heap, pObjBuffer)
    /\ hDirectory' = "closed"
    /\ pc' = "done"
    /\ ret' = status
    /\ UNCHANGED <<op, fetches, calls, qvars, evars, root, dir, uEnumCtx,
                   uBufferSize, pObjBuffer, wvars>>
    /\ UNCHANGED xvars

(***************************************************************************)
(* object_exists                                                           *)
(***************************************************************************)
\* RtlUpcaseUnicodeString applied to a name
Upcase(n) ==
    CASE n = "Dev" -> "DEV"
      [] n = "DEV" -> "DEV"
      [] n = "Tmp" -> "TMP"
      [] OTHER -> n

\* RtlEqualUnicodeString(String1, String2, CaseInSensitive)
RtlEqualUnicodeString(a, b, CaseInSensitive) ==
    IF CaseInSensitive THEN Upcase(a) = Upcase(b) ELSE a = b

\* a comparison of the names that tells the cases apart
NameMatches_CaseSensitive(a, b) == RtlEqualUnicodeString(a, b, FALSE)

\* if(RtlEqualUnicodeString(&uName, &entry->Name, TRUE))
NameMatches(a, b) == RtlEqualUnicodeString(a, b, TRUE)

\* object_exists(root, object, found) up to the argument checks of the
\* enumerate_system_objects it calls with its lambda
OeCall ==
    /\ pc = "idle"
    /\ op' = "oe"
    /\ object' \in ObjectNames
    /\ found' \in BOOLEAN
    /\ callback' = TRUE
    /\ \E r \in BOOLEAN :
         /\ root' = r
         /\ IF ArgumentMissing(r)
              THEN /\ pc' = "done"
                   /\ ret' = STATUS_INVALID_PARAMETER_1
                   /\ UNCHANGED <<uEnumCtx, uBufferSize, pObjBuffer>>
              ELSE /\ pc' = "eso_open"
                   /\ ret' = ret
                   /\ uEnumCtx' = 0
                   /\ uBufferSize' = InitialBufferSize
                   /\ pObjBuffer' = 0
    /\ UNCHANGED <<heap, fetches, calls, qvars, status, records, idx, dir,
                   hDirectory, wvars, mvars, ivars, Name>>
    /\ UNCHANGED yvars

\* a lambda that stores the result of every comparison
FoundAfter_Assigned(matched, old) == matched

\* if(RtlEqualUnicodeString(...)) { *found = true; ... }: the lambda has no
\* other write of *found
FoundAfter(matched, old) == IF matched THEN TRUE ELSE old

\* status = callback(pObjBuffer) with the lambda of object_exists as the
\* callback; if(NT_SUCCESS(status)) break;
OeCallback ==
    /\ pc = "eso_callback"
    /\ op = "oe"
    /\ LET st == IF NameMatches(object, Name[uEnumCtx])
                   THEN STATUS_SUCCESS ELSE STATUS_NOT_FOUND
       IN /\ found' = FoundAfter(NameMatches(object, Name[uEnumCtx]), found)
          /\ calls' = Append(calls, [rec |-> uEnumCtx, st |-> st])
          /\ status' = st
          /\ pc' = IF PredicateMatched(st) THEN "eso_exit" ELSE "eso_query"
    /\ UNCHANGED <<op, ret, heap, fetches, qvars, callback, records, idx, ovars,
                   wvars, mvars, ivars, object, Name>>
    /\ UNCHANGED yvars

(***************************************************************************)
(* read_memory                                                             *)
(***************************************************************************)
\* what NtReadVirtualMemory can answer for an address of the target
ReadStatuses(nullPage) ==
    IF nullPage THEN {STATUS_PARTIAL_COPY, STATUS_ACCESS_DENIED}
                ELSE {STATUS_SUCCESS, STATUS_PARTIAL_COPY, STATUS_ACCESS_DENIED}

\* read_memory(process, address, buffer, size), where kst is what the kernel
\* would answer for the address: the current process is read with memcpy,
\* which returns STATUS_SUCCESS or does not return
read_memory(proc, kst) ==
    IF proc = "Local" THEN STATUS_SUCCESS ELSE kst

\* the memcpy of read_memory touches an address that is not mapped: the
\* access violation ends the process
read_memory_faults(proc, kst) ==
    proc = "Local" /\ kst # STATUS_SUCCESS

(***************************************************************************)
(* enumerate_process_modules and enumerate_process_modules32               *)
(*                                                                         *)
(* The links of the target's list are numbered: StartLink is the list head *)
(* inside the loader data, 1..MaxNodes are the InLoadOrderLinks of the     *)
(* module entries (the first field of an entry, so CONTAINING_RECORD of a  *)
(* link is the entry itself).                                              *)
(***************************************************************************)
StartLink == 0
Links == 0..MaxNodes
Nodes == 1..MaxNodes

Walkers == {"epm", "epm32"}

\* the information class each walker queries for the environment block
WalkerClass(w) ==
    IF w = "epm" THEN "ProcessBasicInformation" ELSE "ProcessWow64Information"

\* an environment-block address that is never taken for unavailable
PebUnavailable_Never(peb) == FALSE

\* if(basic_info->PebBaseAddress == 0)
PebUnavailable(peb) == peb = 0

\* an entry that is delivered whatever its base address
Delivered_Always(base) == TRUE

\* if(currentEntry.DllBase != 0) status = callback(&currentEntry);
Delivered(base) == base # 0

\* a failed read that is taken for a successful one
ReadFailed_Never(st) == FALSE

\* if(!NT_SUCCESS(status)) { free_local_buffer(basic_info); return status; }
ReadFailed(st) == ~NT_SUCCESS(st)

\* loader data that is taken for initialized whatever its flag
LoaderUninitialized_Never(flag) == FALSE

\* if(!ldrData.Initialized) return STATUS_UNSUCCESSFUL;
LoaderUninitialized(flag) == ~flag

\* entry of a walker: the query of the process information
WalkCall(w) ==
    /\ pc = "idle"
    /\ op' = w
    /\ process' \in {"Local", "Remote"}
    /\ information' = WalkerClass(w)
    /\ pc' = "qpi_size"
    /\ UNCHANGED <<ret, heap, fetches, calls, buffer, cb, qret, evars, ovars,
                   PebBaseAddress, tvars, basic_info, currentLink, reads>>
    /\ UNCHANGED xvars

EpmCall == WalkCall("epm")

Epm32Call == WalkCall("epm32")

\* enumerate_process_modules: if(!basic_info) return STATUS_UNSUCCESSFUL;
\* if(basic_info->PebBaseAddress == 0) { free; return STATUS_ACCESS_DENIED; }
EpmQueried ==
    /\ pc = "qpi_ret"
    /\ op = "epm"
    /\ basic_info' = qret
    /\ IF qret = 0
         THEN /\ pc' = "done"
              /\ ret' = STATUS_UNSUCCESSFUL
              /\ UNCHANGED <<heap, PebBaseAddress>>
         ELSE \E peb \in {0, 1} :
                /\ PebBaseAddress' = peb
                /\ IF PebUnavailable(peb)
                     THEN /\ heap' = free_local_buffer(heap, qret)
                          /\ pc' = "done"
                          /\ ret' = STATUS_ACCESS_DENIED
                     ELSE /\ pc' = "walk_ldr"
                          /\ UNCHANGED <<heap, ret>>
    /\ UNCHANGED <<op, fetches, calls, qvars, evars, ovars, process, tvars,
                   currentLink, reads>>
    /\ UNCHANGED xvars

\* enumerate_process_modules32: ULONG_PTR wow64Peb = *basic_info, with no test
\* of basic_info.  Reading through a null basic_info is undefined: the read
\* faults and ends the process, or it yields some value and the walk goes on
Epm32Queried ==
    /\ pc = "qpi_ret"
    /\ op = "epm32"
    /\ basic_info' = qret
    /\ \/ /\ qret = 0
          /\ pc' = "crashed"
          /\ UNCHANGED PebBaseAddress
       \/ /\ \E peb \in {0, 1} : PebBaseAddress' = peb
          /\ pc' = "walk_ldr"
    /\ UNCHANGED <<op, ret, heap, fetches, calls, qvars, evars, ovars, process,
                   tvars, currentLink, reads>>
    /\ UNCHANGED xvars

\* status = read_memory(process, PTR_ADD(peb, FIELD_OFFSET(PEB, Ldr)), &ldr,
\* sizeof(ldr)); if(!NT_SUCCESS(status)) { free; return status; }
WalkReadLdr(w) ==
    /\ pc = "walk_ldr"
    /\ op = w
    /\ \E kst \in ReadStatuses(PebBaseAddress = 0) :
         LET st == read_memory(process, kst)
         IN /\ reads' = Append(reads, [what |-> "Ldr", link |-> StartLink, st |-> kst])
            /\ IF read_memory_faults(process, kst)
                 THEN /\ pc' = "crashed"
                      /\ UNCHANGED <<heap, ret, status>>
                 ELSE IF ReadFailed(st)
                 THEN /\ heap' = free_local_buffer(heap, basic_info)
                      /\ pc' = "done"
                      /\ ret' = st
                      /\ status' = st
                 ELSE /\ pc' = "walk_ldrdata"
                      /\ status' = st
                      /\ UNCHANGED <<heap, ret>>
    /\ UNCHANGED <<op, fetches, calls, qvars, callback, records, idx, ovars,
                   process, PebBaseAddress, tvars, basic_info, currentLink>>
    /\ UNCHANGED xvars

\* status = read_memory(process, ldr, &ldrData, sizeof(ldrData)); the failure
\* test; if(!ldrData.Initialized) return STATUS_UNSUCCESSFUL; startLink and
\* currentLink = ldrData.InLoadOrderModuleList.Flink
WalkReadLdrData(w) ==
    /\ pc = "walk_ldrdata"
    /\ op = w
    /\ \E kst \in ReadStatuses(FALSE) :
         LET st == read_memory(process, kst)
         IN /\ reads' = Append(reads, [what |-> "LdrData", link |-> StartLink, st |-> kst])
            /\ IF read_memory_faults(process, kst)
                 THEN /\ pc' = "crashed"
                      /\ UNCHANGED <<heap, ret, status, tvars, currentLink>>
                 ELSE IF ReadFailed(st)
                 THEN /\ heap' = free_local_buffer(heap, basic_info)
                      /\ pc' = "done"
                      /\ ret' = st
                      /\ status' = st
                      /\ UNCHANGED <<tvars, currentLink>>
                 ELSE /\ status' = st
                      /\ Initialized' \in BOOLEAN
                      /\ Flink' \in [Links -> Links]
                      /\ DllBase' \in [Nodes -> {0, 1}]
                      /\ heap' = heap
                      /\ IF LoaderUninitialized(Initialized')
                           THEN /\ pc' = "done"
                                /\ ret' = STATUS_UNSUCCESSFUL
                                /\ currentLink' = currentLink
                           ELSE /\ pc' = "walk_loop"
                                /\ ret' = ret
                                /\ currentLink' = Flink'[StartLink]
    /\ UNCHANGED <<op, fetches, calls, qvars, callback, records, idx, ovars,
                   process, PebBaseAddress, basic_info>>
    /\ UNCHANGED xvars

EpmReadLdr == WalkReadLdr("epm")

Epm32ReadLdr == WalkReadLdr("epm32")

EpmReadLdrData == WalkReadLdrData("epm")

Epm32ReadLdrData == WalkReadLdrData("epm32")

\* a forward link taken from what the target held before its first write
ForwardLink_Snapshot(memory, history, l) ==
    IF history = <<>> THEN memory[l] ELSE history[1][l]

\* a forward link that passes over the entry behind l
ForwardLink_Skip(memory, history, l) == memory[memory[l]]

\* currentLink = currentEntry.InLoadOrderLinks.Flink, of the entry read_memory
\* has just copied: what the target's memory holds at the instant of the read,
\* whatever it held before
ForwardLink(memory, history, l) == memory[l]

\* number of list nodes read so far
NodeReads == Len(SelectSeq(reads, LAMBDA r : r.what = "Node"))

\* one test of while(currentLink != startLink) and, when it passes, one run of
\* the body: read the entry, deliver it when its base is not null, follow its
\* forward link; when it fails: free_local_buffer(basic_info) and success
WalkLoop(w) ==
    /\ pc = "walk_loop"
    /\ op = w
    /\ IF currentLink # StartLink
         THEN /\ NodeReads < MaxReads
              /\ \E kst \in ReadStatuses(FALSE), cst \in CallbackStatuses :
                   LET st == read_memory(process, kst)
                   IN /\ reads' = Append(reads, [what |-> "Node", link |-> currentLink,
                                                 st |-> kst])
                      /\ IF read_memory_faults(process, kst)
                           THEN /\ pc' = "crashed"
                                /\ UNCHANGED <<heap, ret, status, calls, currentLink>>
                           ELSE IF ReadFailed(st)
                           THEN /\ heap' = free_local_buffer(heap, basic_info)
                                /\ pc' = "done"
                                /\ ret' = st
                                /\ status' = st
                                /\ UNCHANGED <<calls, currentLink>>
                           ELSE IF Delivered(DllBase[currentLink])
                           THEN /\ calls' = Append(calls, [rec |-> currentLink,
                                                           base |-> DllBase[currentLink],
                                                           st |-> cst])
                                /\ status' = cst
                                /\ IF NT_SUCCESS(cst)
                                     THEN /\ heap' = free_local_buffer(heap, basic_info)
                                          /\ pc' = "done"
                                          /\ ret' = cst
                                          /\ currentLink' = currentLink
                                     ELSE /\ pc' = "walk_loop"
                                          /\ currentLink' = ForwardLink(Flink, snapshots,
                                                                      currentLink)
                                          /\ UNCHANGED <<heap, ret>>
                           ELSE /\ pc' = "walk_loop"
                                /\ status' = st
                                /\ currentLink' = ForwardLink(Flink, snapshots, currentLink)
                                /\ UNCHANGED <<heap, ret, calls>>
         ELSE /\ heap' = free_local_buffer(heap, basic_info)
              /\ pc' = "done"
              /\ ret' = STATUS_SUCCESS
              /\ UNCHANGED <<status, calls, currentLink, reads>>
    /\ UNCHANGED <<op, fetches, qvars, callback, records, idx, ovars, process,
                   PebBaseAddress, tvars, basic_info>>
    /\ UNCHANGED xvars

EpmLoop == WalkLoop("epm")

Epm32Loop == WalkLoop("epm32")

(***************************************************************************)
(* The target keeps running while it is walked: its loader links and       *)
(* unlinks modules in the list the walk is reading.                        *)
(***************************************************************************)
MaxWrites == 2

\* the nodes reached from link l by at most n forward links, up to the head
RECURSIVE ListFrom(_, _, _)
ListFrom(f, l, n) ==
    IF l = StartLink \/ n = 0 THEN <<>>
    ELSE <<l>> \o ListFrom(f, f[l], n - 1)

\* the entries of the list in load order, as one pass from the head finds them
LoadOrder(f) == ListFrom(f, f[StartLink], MaxNodes + 1)

\* the forward links lead from the head through each entry back to the head
WellFormed(f) == Len(LoadOrder(f)) <= MaxNodes

InList(f, x) == \E i \in 1..Len(LoadOrder(f)) : LoadOrder(f)[i] = x

\* the last link of the list (the head itself when the list is empty)
TailLink(f) == IF LoadOrder(f) = <<>> THEN StartLink ELSE LoadOrder(f)[Len(LoadOrder(f))]

\* the link of the list that leads to entry x
Predecessor(f, x) ==
    CHOOSE l \in Links : f[l] = x /\ (l = StartLink \/ InList(f, l))

\* the target unloads module x: the entry is unlinked, its own link stays
Unloaded(f, x) == [f EXCEPT ![Predecessor(f, x)] = f[x]]

\* the target loads module x: the entry is linked in at the tail
Loaded(f, x) == [f EXCEPT ![x] = StartLink, ![TailLink(f)] = x]

\* the target, another process running on its own, loads or unloads one module
\* while the walk is between two reads of its memory; nothing holds it off,
\* the walk takes no lock
TargetWrite ==
    /\ pc = "walk_loop"
    /\ process = "Remote"
    /\ Len(snapshots) < MaxWrites
    /\ WellFormed(Flink)
    /\ \E x \in Nodes :
         Flink' = IF InList(Flink, x) THEN Unloaded(Flink, x) ELSE Loaded(Flink, x)
    /\ snapshots' = Append(snapshots, Flink)
    /\ UNCHANGED <<pc, op, ret, heap, fetches, calls, qvars, evars, ovars, process,
                   PebBaseAddress, Initialized, DllBase, basic_info, currentLink,
                   reads, mvars, ivars, fvars, pvars, Magic>>

(***************************************************************************)
(* read_memory and write_memory called on their own                        *)
(***************************************************************************)
\* what NtReadVirtualMemory and NtWriteVirtualMemory answer for a range of
\* the target that is accessible (ok) or not
NtAccessVirtualMemory(ok) ==
    IF ok THEN STATUS_SUCCESS ELSE STATUS_PARTIAL_COPY

\* write_memory(process, address, buffer, size): as read_memory, the current
\* process is written with memcpy
write_memory(proc, kst) ==
    IF proc = "Local" THEN STATUS_SUCCESS ELSE kst

\* the memcpy of write_memory touches an address that cannot be written
write_memory_faults(proc, kst) ==
    proc = "Local" /\ kst # STATUS_SUCCESS

\* one call of read_memory
ReadMemoryCall ==
    /\ pc = "idle"
    /\ op' = "read_memory"
    /\ process' \in {"Local", "Remote"}
    /\ mapped' \in BOOLEAN
    /\ bytes' \in 1..MaxBytes
    /\ IF read_memory_faults(process', NtAccessVirtualMemory(mapped'))
         THEN /\ pc' = "crashed"
              /\ UNCHANGED <<ret, transferred>>
         ELSE /\ pc' = "done"
              /\ ret' = read_memory(process', NtAccessVirtualMemory(mapped'))
              /\ transferred' = IF mapped' THEN bytes' ELSE 0
    /\ UNCHANGED <<heap, fetches, calls, qvars, evars, ovars, PebBaseAddress,
                   tvars, basic_info, currentLink, reads, address, ivars, fvars>>
    /\ UNCHANGED yvars

\* one call of write_memory
WriteMemoryCall ==
    /\ pc = "idle"
    /\ op' = "write_memory"
    /\ process' \in {"Local", "Remote"}
    /\ mapped' \in BOOLEAN
    /\ bytes' \in 1..MaxBytes
    /\ IF write_memory_faults(process', NtAccessVirtualMemory(mapped'))
         THEN /\ pc' = "crashed"
              /\ UNCHANGED <<ret, transferred>>
         ELSE /\ pc' = "done"
              /\ ret' = write_memory(process', NtAccessVirtualMemory(mapped'))
              /\ transferred' = IF mapped' THEN bytes' ELSE 0
    /\ UNCHANGED <<heap, fetches, calls, qvars, evars, ovars, PebBaseAddress,
                   tvars, basic_info, currentLink, reads, address, ivars, fvars>>
    /\ UNCHANGED yvars

(***************************************************************************)
(* allocate_memory, process_memory::allocate and ::allocate_ex             *)
(***************************************************************************)
\* the statuses NtAllocateVirtualMemory can answer with
AllocateStatuses == {STATUS_SUCCESS, STATUS_NO_MEMORY, STATUS_ACCESS_DENIED}

\* the base addresses the kernel can choose for a region
Regions == {1, 2}

\* the values a pointer that was never assigned can hold
PointerValues == {0} \cup Regions

\* allocate_memory(process, start, size, allocation, protection): the status
\* of NtAllocateVirtualMemory, which writes *start only when it succeeds
allocate_memory(start, base, kst) ==
    [status |-> kst, start |-> IF NT_SUCCESS(kst) THEN base ELSE start]

\* process_memory::allocate: uint8_t* address; allocate_memory(..., &address,
\* ...); return address;
PmAllocate ==
    /\ pc = "idle"
    /\ op' = "allocate"
    /\ process' \in {"Local", "Remote"}
    /\ \E junk \in PointerValues, base \in Regions, kst \in AllocateStatuses :
         LET r == allocate_memory(junk, base, kst)
         IN /\ address' = r.start
            /\ mapped' = NT_SUCCESS(r.status)
            /\ ret' = r.start
    /\ pc' = "done"
    /\ UNCHANGED <<heap, fetches, calls, qvars, evars, ovars, PebBaseAddress,
                   tvars, basic_info, currentLink, reads, bytes, transferred,
                   ivars, fvars>>
    /\ UNCHANGED yvars

\* process_memory::allocate_ex: return allocate_memory(..., address, ...);
PmAllocateEx ==
    /\ pc = "idle"
    /\ op' = "allocate_ex"
    /\ process' \in {"Local", "Remote"}
    /\ \E before \in PointerValues, base \in Regions, kst \in AllocateStatuses :
         LET r == allocate_memory(before, base, kst)
         IN /\ address' = r.start
            /\ mapped' = NT_SUCCESS(r.status)
            /\ ret' = r.status
    /\ pc' = "done"
    /\ UNCHANGED <<heap, fetches, calls, qvars, evars, ovars, PebBaseAddress,
                   tvars, basic_info, currentLink, reads, bytes, transferred,
                   ivars, fvars>>
    /\ UNCHANGED yvars

(***************************************************************************)
(* mapped images: load_mapped_image, mapped_image_rva_to_section and       *)
(* mapped_image_rva_to_va.  A pointer into the section table is the index  *)
(* of the section (from 1); 0 is NULL.                                     *)
(***************************************************************************)
\* a mapped_image the caller has not filled
NoImage ==
    [view_base |-> 0, view_size |-> 0, nt_hdrs32 |-> 0, nt_hdrs64 |-> 0,
     section_count |-> 0, sections |-> <<>>]

\* the number of values of the model's ULONG: ULONG arithmetic is modulo it
UlongRange == 8

ULONG(x) == x % UlongRange

\* the values of the fields of an IMAGE_SECTION_HEADER
SectionStarts == {0, 2, 4, 6}

RawSizes == {0, 2, 4}

FileOffsets == {1, 5}

SectionHeaders ==
    [VirtualAddress : SectionStarts, SizeOfRawData : RawSizes,
     PointerToRawData : FileOffsets]

\* the section tables an image can have
SectionTables == UNION {[1..n -> SectionHeaders] : n \in 0..MaxSections}

\* the addresses a view can be mapped at, and the sizes a file can have
ViewBases == {16, 32}

FileSizes == {64, 512}

\* what the file holds where its old-format header says the new header is:
\* nothing of the view, no signature, or a signature and the magic after it
Headers == {"outside", "unsigned", "HDR32", "HDR64", "ROM"}

\* the mapped_image structures a caller can pass to load_mapped_image: not
\* filled, or holding the header pointers of an earlier use
CallerImages ==
    {[NoImage EXCEPT !.nt_hdrs32 = a, !.nt_hdrs64 = b] : a, b \in {0, 1}}

\* image.nt_hdrs64 set whatever the magic is
HeaderPointer64_Always(magic, nthdrs) == nthdrs

\* image.nt_hdrs32 = nthdrs when Magic == IMAGE_NT_OPTIONAL_HDR32_MAGIC,
\* nullptr otherwise
HeaderPointer32(magic, nthdrs) == IF magic = "HDR32" THEN nthdrs ELSE 0

\* image.nt_hdrs64 = nullptr when Magic == IMAGE_NT_OPTIONAL_HDR32_MAGIC,
\* nthdrs otherwise
HeaderPointer64(magic, nthdrs) == IF magic = "HDR32" THEN 0 ELSE nthdrs

\* a close that leaves the handle open
NtClose_Leak(h) == h

\* NtClose(h): an open handle is closed; closing a handle again, or one that
\* was never opened, is recorded as such
NtClose(h) ==
    CASE h = "open" -> "closed"
      [] h = "closed" -> "reclosed"
      [] OTHER -> "invalid"

\* status = open_file(path, ..., &fileHandle); sectionHandle = nullptr;
LmiCall ==
    /\ pc = "idle"
    /\ op' = "load_mapped_image"
    /\ image' \in CallerImages
    /\ \E st \in {STATUS_SUCCESS, STATUS_OBJECT_NAME_NOT_FOUND} :
         /\ status' = st
         /\ IF NT_SUCCESS(st)
              THEN /\ fileHandle' = "open"
                   /\ pc' = "lmi_size"
                   /\ ret' = ret
              ELSE /\ fileHandle' = fileHandle
                   /\ pc' = "done"
                   /\ ret' = st
    /\ UNCHANGED <<heap, fetches, calls, qvars, callback, records, idx, ovars,
                   wvars, mvars, sectionHandle, views, rva, fvars>>
    /\ UNCHANGED yvars

\* status = get_file_size(fileHandle, nullptr, &fileSize);
LmiFileSize ==
    /\ pc = "lmi_size"
    /\ \E st \in {STATUS_SUCCESS, STATUS_ACCESS_DENIED} :
         /\ status' = st
         /\ pc' = IF NT_SUCCESS(st) THEN "lmi_section" ELSE "lmi_close_file"
    /\ UNCHANGED <<op, ret, heap, fetches, calls, qvars, callback, records, idx,
                   ovars, wvars, xvars>>

\* status = NtCreateSection(&sectionHandle, ...); on success image.view_base
\* = 0 and image.view_size = fileSize
LmiCreateSection ==
    /\ pc = "lmi_section"
    /\ \E st \in {STATUS_SUCCESS, STATUS_ACCESS_DENIED}, fileSize \in FileSizes :
         /\ status' = st
         /\ IF NT_SUCCESS(st)
              THEN /\ sectionHandle' = "open"
                   /\ image' = [image EXCEPT !.view_base = 0, !.view_size = fileSize]
                   /\ pc' = "lmi_map"
              ELSE /\ pc' = "lmi_close_file"
                   /\ UNCHANGED <<sectionHandle, image>>
    /\ UNCHANGED <<op, ret, heap, fetches, calls, qvars, callback, records, idx,
                   ovars, wvars, mvars, fileHandle, views, rva, fvars>>
    /\ UNCHANGED yvars

\* status = NtMapViewOfSection(sectionHandle, NtCurrentProcess(),
\* &image.view_base, ..., &image.view_size, ...)
LmiMapView ==
    /\ pc = "lmi_map"
    /\ \E st \in {STATUS_SUCCESS, STATUS_NO_MEMORY}, base \in ViewBases :
         /\ status' = st
         /\ IF NT_SUCCESS(st)
              THEN /\ views' = views + 1
                   /\ image' = [image EXCEPT !.view_base = base]
                   /\ pc' = "lmi_parse"
              ELSE /\ pc' = "lmi_close_section"
                   /\ UNCHANGED <<views, image>>
    /\ UNCHANGED <<op, ret, heap, fetches, calls, qvars, callback, records, idx,
                   ovars, wvars, mvars, fileHandle, sectionHandle, rva, fvars>>
    /\ UNCHANGED yvars

\* the body of if(NT_SUCCESS(status)) after the mapping: the signature test
\* and the filling of the header pointers and of the section table
LmiParse ==
    /\ pc = "lmi_parse"
    /\ \E hdr \in Headers, table \in SectionTables :
         CASE hdr = "outside" ->
                /\ pc' = "crashed"
                /\ UNCHANGED <<status, image, Magic>>
           [] hdr = "unsigned" ->
                /\ pc' = "lmi_close_section"
                /\ status' = STATUS_INVALID_IMAGE_FORMAT
                /\ UNCHANGED <<image, Magic>>
           [] OTHER ->
                /\ pc' = "lmi_close_section"
                /\ status' = status
                /\ Magic' = hdr
                /\ image' = [image EXCEPT
                                !.nt_hdrs32 = HeaderPointer32(hdr, 1),
                                !.nt_hdrs64 = HeaderPointer64(hdr, 1),
                                !.section_count = Len(table),
                                !.sections = table]
    /\ UNCHANGED <<op, ret, heap, fetches, calls, qvars, callback, records, idx,
                   ovars, wvars, mvars, fileHandle, sectionHandle, views, rva,
                   fvars>>
    /\ UNCHANGED <<pvars, snapshots>>

\* NtClose(sectionHandle);
LmiCloseSection ==
    /\ pc = "lmi_close_section"
    /\ sectionHandle' = NtClose(sectionHandle)
    /\ pc' = "lmi_close_file"
    /\ UNCHANGED <<op, ret, heap, fetches, calls, qvars, evars, ovars, wvars,
                   mvars, fileHandle, views, image, rva, fvars>>
    /\ UNCHANGED yvars

\* NtClose(fileHandle); return status;
LmiCloseFile ==
    /\ pc = "lmi_close_file"
    /\ fileHandle' = NtClose(fileHandle)
    /\ pc' = "done"
    /\ ret' = status
    /\ UNCHANGED <<op, heap, fetches, calls, qvars, evars, ovars, wvars, mvars,
                   sectionHandle, views, image, rva, fvars>>
    /\ UNCHANGED yvars

\* unload_mapped_image(image), called by the owner of an image that
\* load_mapped_image has mapped: NtUnmapViewOfSection(NtCurrentProcess(),
\* image.view_base)
UnloadMappedImage ==
    /\ pc = "done"
    /\ op = "load_mapped_image"
    /\ image.view_base # 0
    /\ views' = IF views > 0 THEN views - 1 ELSE views
    /\ pc' = "unloaded"
    /\ UNCHANGED <<op, ret, heap, fetches, calls, qvars, evars, ovars, wvars, mvars,
                   fileHandle, sectionHandle, image, rva, fvars>>
    /\ UNCHANGED yvars

\* a test of the range that takes its end for part of it
SectionContains_Inclusive(s, r) ==
    (r >= s.VirtualAddress) /\ (r <= ULONG(s.VirtualAddress + s.SizeOfRawData))

\* (rva >= sections[i].VirtualAddress) && (rva < sections[i].VirtualAddress +
\* sections[i].SizeOfRawData), the sum being a ULONG
SectionContains(s, r) ==
    (r >= s.VirtualAddress) /\ (r < ULONG(s.VirtualAddress + s.SizeOfRawData))

RECURSIVE ScanSections(_, _, _)
\* the for loop of mapped_image_rva_to_section from index i on
ScanSections(img, r, i) ==
    IF ~(i < img.section_count) THEN 0
    ELSE IF SectionContains(img.sections[i + 1], r) THEN i + 1
    ELSE ScanSections(img, r, i + 1)

mapped_image_rva_to_section(img, r) == ScanSections(img, r, 0)

\* an address taken relative to the start of the view only
mapped_image_rva_to_va_Virtual(img, r) ==
    IF mapped_image_rva_to_section(img, r) = 0 THEN 0
    ELSE img.view_base + r

mapped_image_rva_to_va(img, r) ==
    LET section == mapped_image_rva_to_section(img, r)
    IN IF section = 0 THEN 0
       ELSE img.view_base + ULONG(r - img.sections[section].VirtualAddress)
              + img.sections[section].PointerToRawData

\* the mapped images a caller can pass
Images ==
    {[view_base |-> b, view_size |-> 512, nt_hdrs32 |-> 0, nt_hdrs64 |-> 1,
      section_count |-> Len(t), sections |-> t] :
        b \in ViewBases, t \in SectionTables}

\* one call of mapped_image_rva_to_section
RvaToSectionCall ==
    /\ pc = "idle"
    /\ op' = "rva_to_section"
    /\ image' \in Images
    /\ rva' \in 0..(UlongRange - 1)
    /\ ret' = mapped_image_rva_to_section(image', rva')
    /\ pc' = "done"
    /\ UNCHANGED <<heap, fetches, calls, qvars, evars, ovars, wvars, mvars,
                   fileHandle, sectionHandle, views, fvars>>
    /\ UNCHANGED yvars

\* one call of mapped_image_rva_to_va
RvaToVaCall ==
    /\ pc = "idle"
    /\ op' = "rva_to_va"
    /\ image' \in Images
    /\ rva' \in 0..(UlongRange - 1)
    /\ ret' = mapped_image_rva_to_va(image', rva')
    /\ pc' = "done"
    /\ UNCHANGED <<heap, fetches, calls, qvars, evars, ovars, wvars, mvars,
                   fileHandle, sectionHandle, views, fvars>>
    /\ UNCHANGED yvars

Init ==
    /\ pc = "idle"
    /\ op = NoValue
    /\ ret = 0
    /\ heap = <<>>
    /\ fetches = <<>>
    /\ calls = <<>>
    /\ information = NoValue
    /\ buffer = 0
    /\ cb = 0
    /\ qret = 0
    /\ callback = FALSE
    /\ status = STATUS_SUCCESS
    /\ records = 0
    /\ idx = 0
    /\ root = FALSE
    /\ dir = <<>>
    /\ hDirectory = "unset"
    /\ uEnumCtx = 0
    /\ uBufferSize = 0
    /\ pObjBuffer = 0
    /\ process = NoValue
    /\ PebBaseAddress = 0
    /\ Initialized = FALSE
    /\ Flink = <<>>
    /\ DllBase = <<>>
    /\ basic_info = 0
    /\ currentLink = 0
    /\ reads = <<>>
    /\ mapped = FALSE
    /\ bytes = 0
    /\ transferred = 0
    /\ address = 0
    /\ fileHandle = "unset"
    /\ sectionHandle = "unset"
    /\ views = 0
    /\ image = NoImage
    /\ rva = 0
    /\ object = NoValue
    /\ Name = <<>>
    /\ found = FALSE
    /\ pid = 0
    /\ ThreadCount = 0
    /\ tidx = 0
    /\ snapshots = <<>>
    /\ Magic = "unset"

Next ==
    \/ QsiCall
    \/ QsiRequiredSize
    \/ QsiAllocate
    \/ QsiFetch
    \/ QsiResize
    \/ QsiReturn
    \/ QpiCall
    \/ QpiAllocate
    \/ QpiFetch
    \/ QpiReturn
    \/ QoiCall
    \/ QoiAllocate
    \/ QoiFetch
    \/ EsmCall
    \/ EsmQueried
    \/ EsmLoop
    \/ EsmFree
    \/ EpCall
    \/ EpQueried
    \/ EpLoop
    \/ EpFree
    \/ EptCall
    \/ EptQueried
    \/ EptLoop
    \/ EptThread
    \/ EsoCall
    \/ EsoOpen
    \/ EsoAllocate
    \/ EsoQuery
    \/ EsoResize
    \/ EsoCallback
    \/ EsoExit
    \/ OeCall
    \/ OeCallback
    \/ ReadMemoryCall
    \/ WriteMemoryCall
    \/ PmAllocate
    \/ PmAllocateEx
    \/ LmiCall
    \/ LmiFileSize
    \/ LmiCreateSection
    \/ LmiMapView
    \/ LmiParse
    \/ LmiCloseSection
    \/ LmiCloseFile
    \/ UnloadMappedImage
    \/ RvaToSectionCall
    \/ RvaToVaCall
    \/ EpmCall
    \/ Epm32Call
    \/ EpmQueried
    \/ Epm32Queried
    \/ EpmReadLdr
    \/ EpmReadLdrData
    \/ EpmLoop
    \/ Epm32ReadLdr
    \/ Epm32ReadLdrData
    \/ Epm32Loop

Spec == Init /\ [][Next]_vars

(***************************************************************************)
(* Properties                                                              *)
(***************************************************************************)
Returned == pc = "done"

BufferEnumerators == {"esm", "ep", "eso"}

NoMatch == \A i \in DOMAIN calls : ~NT_SUCCESS(calls[i].st)

\* the step query_system_information takes from a position of its loop
C1_Step ==
    op \in {"qsi", "esm", "ep"} =>
          /\ pc = "qsi_fetch" =>
               /\ Len(fetches') = Len(fetches) + 1
               /\ LET f == fetches'[Len(fetches')]
                  IN /\ f.buf = buffer
                     /\ f.len = cb
                     /\ f.st = STATUS_INFO_LENGTH_MISMATCH =>
                          pc' = "qsi_resize" /\ cb' = f.need
                     /\ NT_SUCCESS(f.st) =>
                          /\ pc' = "qsi_ret"
                          /\ qret' = buffer
                          /\ Live(heap', buffer)
                          /\ heap'[buffer].filled
                     /\ (~NT_SUCCESS(f.st) /\ f.st # STATUS_INFO_LENGTH_MISMATCH) =>
                          pc' = "qsi_ret" /\ qret' = 0
          /\ pc = "qsi_resize" =>
               /\ pc' = "qsi_fetch"
               /\ cb' = cb
               /\ buffer # 0 => heap'[buffer].frees = heap[buffer].frees + 1
               /\ buffer' # 0 =>
                    /\ buffer' \notin DOMAIN heap
                    /\ Live(heap', buffer')
                    /\ heap'[buffer'].size = cb
          /\ pc # "qsi_fetch" => fetches' = fetches

\* C1: in query_system_information a fetch that answers size-mismatch is
\* always followed by the release of the current buffer, the allocation of a
\* buffer of the kernel-reported size (the heap granting it) and another
\* fetch with that buffer and that size, however many mismatches came before;
\* the loop is left only by a successful fetch, which returns the buffer it
\* filled, or by a fetch failing otherwise, which returns nullptr; once the
\* loop is left no fetch is issued.
C1_RetryUntilSettled ==
    [][C1_Step]_vars

\* C1 witness: a call that was answered size-mismatch twice, retried both
\* times and returned the buffer of the third fetch, sized as the kernel said
C1_Witness ==
    /\ Returned
    /\ op = "qsi"
    /\ Len(fetches) = 3
    /\ fetches[1].st = STATUS_INFO_LENGTH_MISMATCH
    /\ fetches[2].st = STATUS_INFO_LENGTH_MISMATCH
    /\ fetches[3].st = STATUS_SUCCESS
    /\ ret = fetches[3].buf
    /\ heap[ret].size = fetches[2].need
    /\ heap[fetches[1].buf].frees = 1

\* C2: when a query operation returns after a fetch that failed with a status
\* other than size-mismatch, no buffer it allocated is still allocated.
C2_FailedQueryFreesBuffer ==
    (/\ Returned
     /\ op \in {"qsi", "qpi", "qoi"}
     /\ fetches # <<>>
     /\ ~NT_SUCCESS(fetches[Len(fetches)].st)
     /\ fetches[Len(fetches)].st # STATUS_INFO_LENGTH_MISMATCH)
    => \A b \in DOMAIN heap : ~Live(heap, b)

\* C3: when enumerate_system_modules, enumerate_processes or
\* enumerate_system_objects returns, every buffer allocated for the record
\* sequence during the call has been released exactly once.
C3_BufferReleasedOnce ==
    (Returned /\ op \in BufferEnumerators)
    => \A b \in DOMAIN heap : heap[b].frees = 1

\* C4: when a loader walker returns, the process-information buffer it
\* obtained has been released exactly once.
C4_BasicInfoReleasedOnce ==
    (Returned /\ op \in Walkers /\ basic_info # 0)
    => heap[basic_info].frees = 1

\* C5: in the three buffer enumerators no predicate invocation follows one
\* that returned a success status, and the call returns that status.
C5_StopOnMatch ==
    op \in BufferEnumerators =>
      /\ \A i \in DOMAIN calls : NT_SUCCESS(calls[i].st) => i = Len(calls)
      /\ (Returned /\ ~NoMatch) => ret = calls[Len(calls)].st

\* records are left after the last one delivered
RecordsLeft ==
    CASE op = "esm" -> Len(calls) < records
      [] op = "ep" -> Len(calls) + 1 < records
      [] op = "eso" -> Len(calls) < Len(dir)
      [] OTHER -> FALSE

\* C5 witness: an enumeration that returned the success status of its second
\* predicate invocation although more records were left
C5_Witness ==
    /\ Returned
    /\ op \in BufferEnumerators
    /\ Len(calls) = 2
    /\ calls[2].st = STATUS_PENDING
    /\ ret = STATUS_PENDING
    /\ RecordsLeft

\* C6: when the predicate never matches, enumerate_processes invokes it once
\* for every record of the chain, in chain order, the last record included.
C6_EveryProcessDelivered ==
    (Returned /\ op = "ep" /\ qret # 0 /\ NoMatch)
    => /\ Len(calls) = records
       /\ \A i \in DOMAIN calls : calls[i].rec = i

\* C7: an enumerator or walker that returns without any predicate invocation
\* having signalled match returns a non-success status.
C7_NoMatchIsNotSuccess ==
    (Returned /\ op \in BufferEnumerators \cup Walkers /\ NoMatch)
    => ~NT_SUCCESS(ret)

\* C8: when the initial query returns no buffer, enumerate_system_modules and
\* enumerate_processes return an error status and invoke the predicate zero
\* times.
C8_QueryFailurePropagated ==
    (Returned /\ op \in {"esm", "ep"} /\ callback /\ qret = 0)
    => (~NT_SUCCESS(ret) /\ calls = <<>>)

\* C9: when the basic-information query of enumerate_process_modules reports
\* a null environment-block address the call returns STATUS_ACCESS_DENIED
\* having read no target memory and invoked no callback; it neither crashes
\* nor goes on to walk.
C9_NullPebAccessDenied ==
    (op = "epm" /\ basic_info # 0 /\ PebBaseAddress = 0)
    => /\ Returned
       /\ ret = STATUS_ACCESS_DENIED
       /\ reads = <<>>
       /\ calls = <<>>

\* C9 witness: the native walk returned for a null environment-block address
C9_Witness ==
    /\ Returned
    /\ op = "epm"
    /\ basic_info # 0
    /\ PebBaseAddress = 0
    /\ ret = STATUS_ACCESS_DENIED

\* the step a loader walker takes from the head of its loop
C10_Step ==
    pc = "walk_loop" =>
          /\ calls' # calls =>
               /\ Len(calls') = Len(calls) + 1
               /\ calls'[Len(calls')].base # 0
               /\ calls'[Len(calls')].rec = currentLink
          /\ (/\ currentLink # StartLink
              /\ DllBase[currentLink] = 0
              /\ pc' = "walk_loop") =>
               /\ calls' = calls
               /\ Len(reads') = Len(reads) + 1
               /\ reads'[Len(reads')].link = currentLink
               /\ currentLink' = Flink[currentLink]

\* C10: every entry a loader walker passes to the callback has a non-null
\* base address; a node with a null base that was read is not delivered and
\* its forward link is followed.
C10_NullBaseFiltered ==
    [][C10_Step]_vars

\* C10 witness: the reduced-bitness walk read a node with a null base, did
\* not deliver it, followed its link and delivered the node behind it
C10_Witness ==
    /\ op = "epm32"
    /\ Len(reads) = 4
    /\ reads[3].what = "Node"
    /\ DllBase[reads[3].link] = 0
    /\ reads[4].link = Flink[reads[3].link]
    /\ reads[4].link # StartLink
    /\ reads[4].st = STATUS_SUCCESS
    /\ Len(calls) = 1
    /\ calls[1].rec = reads[4].link
    /\ calls[1].base # 0

\* C11: in both loader walkers, once the loader data has been read from the
\* target with its Initialized flag clear, the walk has returned a failure
\* status, has read no list node and has made no callback invocation.
C11_UninitializedLoaderFails ==
    (/\ op \in Walkers
     /\ Len(reads) >= 2
     /\ reads[2].st = STATUS_SUCCESS
     /\ ~Initialized)
    => /\ Returned
       /\ ~NT_SUCCESS(ret)
       /\ NodeReads = 0
       /\ calls = <<>>

\* C11 witness: the reduced-bitness walk returned STATUS_UNSUCCESSFUL after
\* reading loader data whose Initialized flag is clear
C11_Witness ==
    /\ Returned
    /\ op = "epm32"
    /\ Len(reads) = 2
    /\ reads[2].what = "LdrData"
    /\ reads[2].st = STATUS_SUCCESS
    /\ ~Initialized
    /\ ret = STATUS_UNSUCCESSFUL

\* the last read of the walk went through the kernel and failed
RemoteReadFailed ==
    /\ op \in Walkers
    /\ process = "Remote"
    /\ reads # <<>>
    /\ ~NT_SUCCESS(reads[Len(reads)].st)

\* the step that issues a read of the target, and any step after a failed one
C12_Step ==
    /\ (reads' # reads /\ RemoteReadFailed') =>
         /\ Len(reads') = Len(reads) + 1
         /\ pc' = "done"
         /\ ret' = reads'[Len(reads')].st
         /\ calls' = calls
    /\ RemoteReadFailed => UNCHANGED vars

\* C12: in both loader walkers a read of the target that fails (the loader
\* pointer, the loader data or a list node) makes the walk return that
\* read's status in the same step, the callbacks made so far standing;
\* after it no read is issued, nothing is retried and no callback is made.
C12_ReadFailureAborts ==
    [][C12_Step]_vars

\* C12 witness: the native walk delivered a node, failed to read the next one
\* and returned the status of that read
C12_Witness ==
    /\ Returned
    /\ op = "epm"
    /\ process = "Remote"
    /\ Len(calls) = 1
    /\ Len(reads) = 4
    /\ reads[4].what = "Node"
    /\ reads[4].st = STATUS_PARTIAL_COPY
    /\ ret = STATUS_PARTIAL_COPY

\* C13: enumerate_process_modules32 and enumerate_process_modules are the
\* same algorithm: on the same loader state they issue the same reads, make
\* the same callback invocations and return the same status, and they
\* report an unavailable (null) environment-block address the same way,
\* which for the native walk is STATUS_ACCESS_DENIED before any read and
\* any callback.
C13_WalkersAgree ==
    (/\ Returned
     /\ op \in Walkers
     /\ basic_info # 0
     /\ PebBaseAddress = 0)
    => /\ ret = STATUS_ACCESS_DENIED
       /\ reads = <<>>
       /\ calls = <<>>

\* C14: read_memory and write_memory end on the current process (the direct
\* copy) as they do through the kernel for the same address: the call
\* returns, with the status the kernel gives for the address and the same
\* number of bytes transferred; an inaccessible address is an error status.
C14_LocalAsRemote ==
    (op \in {"read_memory", "write_memory"} /\ pc # "idle")
    => /\ Returned
       /\ ret = NtAccessVirtualMemory(mapped)
       /\ transferred = (IF mapped THEN bytes ELSE 0)

\* C15: when the underlying allocation fails, process_memory::allocate
\* returns the null address and process_memory::allocate_ex returns a
\* failure status.
C15_AllocateReportsFailure ==
    (Returned /\ op \in {"allocate", "allocate_ex"} /\ ~mapped)
    => IF op = "allocate" THEN ret = 0 ELSE ~NT_SUCCESS(ret)

\* C16: when load_mapped_image returns a failure status, the invalid-image
\* status of a file without the signature included, no view mapped by the
\* call is left mapped.
C16_NothingMappedOnFailure ==
    (Returned /\ op = "load_mapped_image" /\ ~NT_SUCCESS(ret)) => views = 0

\* r lies in the range [VirtualAddress, VirtualAddress + SizeOfRawData) of s
InRawRange(s, r) ==
    s.VirtualAddress <= r /\ r < s.VirtualAddress + s.SizeOfRawData

\* the sections of the image whose range contains rva
Hits == {i \in 1..image.section_count : InRawRange(image.sections[i], rva)}

\* C17: for every section table and every rva, mapped_image_rva_to_section
\* returns the first section in table order whose range [VirtualAddress,
\* VirtualAddress + SizeOfRawData) contains rva, and null exactly when no
\* section's range contains it.
C17_FirstContainingSection ==
    (Returned /\ op = "rva_to_section")
    => IF Hits = {} THEN ret = 0
       ELSE ret \in Hits /\ \A j \in Hits : ret <= j

\* C18: mapped_image_rva_to_va returns 0 when mapped_image_rva_to_section
\* finds no section for rva, and otherwise view_base + (rva - VirtualAddress)
\* + PointerToRawData of the section found; an rva at the start of the
\* section found resolves to view_base plus that section's file offset.
C18_RvaToVa ==
    (Returned /\ op = "rva_to_va")
    => LET k == mapped_image_rva_to_section(image, rva)
       IN /\ k = 0 => ret = 0
          /\ k # 0 =>
               ret = image.view_base + (rva - image.sections[k].VirtualAddress)
                       + image.sections[k].PointerToRawData
          /\ (k # 0 /\ rva = image.sections[k].VirtualAddress) =>
               ret = image.view_base + image.sections[k].PointerToRawData

\* C18 witness: an rva at the start of the second section of an unsorted
\* table, inside the section, resolved to view_base plus the file offset of
\* that section
C18_Witness ==
    /\ Returned
    /\ op = "rva_to_va"
    /\ image.section_count = 2
    /\ image.sections[2].VirtualAddress < image.sections[1].VirtualAddress
    /\ rva = image.sections[2].VirtualAddress
    /\ Hits = {2}
    /\ image.sections[2].PointerToRawData # image.sections[1].PointerToRawData
    /\ ret = image.view_base + image.sections[2].PointerToRawData

\* a two-section image and the rva one byte past the raw range of its first
\* section, which is not empty, the second section beginning at that rva or
\* after it
PastFirstSection ==
    /\ Returned
    /\ op \in {"rva_to_section", "rva_to_va"}
    /\ image.section_count = 2
    /\ image.sections[1].SizeOfRawData > 0
    /\ rva = image.sections[1].VirtualAddress + image.sections[1].SizeOfRawData
    /\ image.sections[2].VirtualAddress >= rva

\* C19 as stated: on a two-section image the rva one byte past the raw range
\* of the first section resolves to not-found in both functions, also when
\* the second section begins right there.
C19_PastEndNotFound ==
    PastFirstSection => ret = 0

\* C19 as amended: that rva never resolves to the first section; it resolves
\* to the second section (to its index, to view_base plus its file offset)
\* when the second section begins exactly at that rva, is not empty and ends
\* below the top of the ULONG range, and to not-found in every other case.
C19_PastEndResolution ==
    PastFirstSection =>
      LET second == image.sections[2]
      IN IF /\ second.VirtualAddress = rva
            /\ second.SizeOfRawData > 0
            /\ second.VirtualAddress + second.SizeOfRawData < UlongRange
           THEN ret = (IF op = "rva_to_section" THEN 2
                       ELSE image.view_base + second.PointerToRawData)
           ELSE ret = 0

\* C19 witness: the second section begins at the rva one byte past the first
\* section and mapped_image_rva_to_va resolved the rva to its first byte
C19_Witness ==
    /\ PastFirstSection
    /\ op = "rva_to_va"
    /\ image.sections[2].VirtualAddress = rva
    /\ ret = image.view_base + image.sections[2].PointerToRawData

\* the k-th entry of the directory is the first whose name equals the
\* requested one, the case of the letters ignored
FirstMatch(k) ==
    /\ k \in DOMAIN Name
    /\ RtlEqualUnicodeString(object, Name[k], TRUE)
    /\ \A j \in 1..(k - 1) : ~RtlEqualUnicodeString(object, Name[j], TRUE)

\* no query step of the enumeration failed other than by buffer-too-small
NoQueryFailed ==
    \A i \in DOMAIN fetches :
       fetches[i].st \in {STATUS_SUCCESS, STATUS_BUFFER_TOO_SMALL}

\* C20: when object_exists returns from a directory it opened and queried
\* without a failure, and the k-th entry is the first whose name equals the
\* requested one case-insensitively, then *found is true, the status is a
\* success status, the predicate was invoked exactly k times, on the entries
\* 1..k in order, and no entry after the k-th was fetched.
C20_FoundAtFirstMatch ==
    (Returned /\ op = "oe" /\ hDirectory = "closed" /\ NoQueryFailed)
    => \A k \in DOMAIN Name :
         FirstMatch(k) =>
           /\ found
           /\ NT_SUCCESS(ret)
           /\ Len(calls) = k
           /\ \A i \in 1..k : calls[i].rec = i
           /\ \A i \in DOMAIN fetches : fetches[i].ctx < k

\* C20 witness: a directory of three entries whose second entry matches the
\* requested name in another case: found after exactly two invocations
C20_Witness ==
    /\ Returned
    /\ op = "oe"
    /\ Len(Name) = 3
    /\ FirstMatch(2)
    /\ object # Name[2]
    /\ found
    /\ ret = STATUS_SUCCESS
    /\ Len(calls) = 2
    /\ uEnumCtx = 2

\* no fetch of the call was refused by the kernel for a reason other than the
\* length of the buffer, and every fetch was given a buffer
OnlySizeMismatches ==
    /\ fetches # <<>>
    /\ \A i \in DOMAIN fetches :
         /\ fetches[i].st \in {STATUS_SUCCESS, STATUS_INFO_LENGTH_MISMATCH}
         /\ fetches[i].buf # 0

\* C21: a query_process_information or query_object_information call whose
\* fetches fail, if at all, only by size mismatch returns the filled buffer
\* after at most two fetches: the first one and, when that one answers size
\* mismatch, one more.
C21_SucceedsWithinTwoFetches ==
    (Returned /\ op \in {"qpi", "qoi"} /\ OnlySizeMismatches)
    => /\ ret # 0
       /\ Len(fetches) <= 2
       /\ fetches[Len(fetches)].st = STATUS_SUCCESS

(***************************************************************************)
(* query_system_information run to completion: the calling thread keeps    *)
(* executing, so a step of the call that is possible is eventually taken.  *)
(* The size the kernel needs is chosen anew at every fetch, which is what  *)
(* a system that changes between the fetches does; it stops growing at     *)
(* MaxNeed.                                                                *)
(***************************************************************************)
QsiNext ==
    \/ QsiCall
    \/ QsiRequiredSize
    \/ QsiAllocate
    \/ QsiFetch
    \/ QsiResize
    \/ QsiReturn

QsiFair == Init /\ [][QsiNext]_vars /\ WF_vars(QsiNext)

\* the step taken at a fetch that is a retry, and at the resize after it
C22_Step ==
    /\ (pc = "qsi_fetch" /\ fetches # <<>>
          /\ fetches'[Len(fetches')].st = STATUS_INFO_LENGTH_MISMATCH)
       => pc' = "qsi_resize"
    /\ pc = "qsi_resize"
       => (pc' = "qsi_fetch" /\ cb' = fetches[Len(fetches)].need)

\* the call returned the buffer the last fetch filled, large enough for what
\* the kernel needed at that fetch
FilledBufferReturned ==
    LET f == fetches[Len(fetches)]
    IN /\ ret # 0
       /\ ret = f.buf
       /\ f.st = STATUS_SUCCESS
       /\ Live(heap, ret)
       /\ heap[ret].filled
       /\ heap[ret].size >= f.need

\* C22: while the size the kernel needs grows between the fetches,
\* query_system_information answers every size mismatch of a retry with
\* another resize and another fetch; once the size has stopped growing the
\* call returns, and when no fetch failed otherwise and the heap granted
\* every buffer it returns a filled buffer at least as large as the size
\* needed at the successful fetch.
C22_RetriesUntilFilled ==
    /\ [][C22_Step]_vars
    /\ [](Returned /\ OnlySizeMismatches => FilledBufferReturned)
    /\ (pc = "qsi_size") ~> Returned

\* C22 witness: the needed size grew twice, before the first fetch and
\* before the retry, and the third fetch filled the buffer that was returned
C22_Witness ==
    /\ Returned
    /\ op = "qsi"
    /\ OnlySizeMismatches
    /\ Len(fetches) = 3
    /\ fetches[1].len < fetches[1].need
    /\ fetches[1].need < fetches[2].need
    /\ fetches[2].need <= fetches[3].len
    /\ FilledBufferReturned

\* the call was made without a required argument: an empty root or a null
\* callback
RequiredArgumentMissing ==
    \/ op \in {"esm", "ep", "ept"} /\ ~callback
    \/ op = "eso" /\ (~root \/ ~callback)

\* the invalid-argument status the code returns for the missing argument
InvalidArgumentStatus ==
    CASE op = "eso" /\ ~root -> STATUS_INVALID_PARAMETER_1
      [] op = "eso" -> STATUS_INVALID_PARAMETER_2
      [] op = "ept" -> STATUS_INVALID_PARAMETER_2
      [] OTHER -> STATUS_INVALID_PARAMETER_1

\* C23: enumerate_system_objects called with an empty root or without a
\* callback, and enumerate_system_modules, enumerate_processes and
\* enumerate_process_threads called without a callback, return an
\* invalid-argument status at once: nothing was allocated, queried, opened
\* or invoked.
C23_MissingArgumentFailsAtOnce ==
    RequiredArgumentMissing
    => /\ Returned
       /\ ret = InvalidArgumentStatus
       /\ heap = <<>>
       /\ fetches = <<>>
       /\ calls = <<>>
       /\ hDirectory = "unset"
       /\ cb = 0

\* C23 witness: enumerate_process_threads returned for a null callback, and
\* enumerate_system_objects for an empty root with a callback given
C23_Witness ==
    /\ Returned
    /\ \/ op = "ept" /\ ~callback /\ ret = STATUS_INVALID_PARAMETER_2
       \/ op = "eso" /\ ~root /\ callback /\ ret = STATUS_INVALID_PARAMETER_1
    /\ fetches = <<>>

\* C24: when load_mapped_image returns a success status, exactly one of
\* image.nt_hdrs32 and image.nt_hdrs64 is non-null, whatever the structure
\* held before the call: nt_hdrs32 for the 32-bit optional-header magic,
\* nt_hdrs64 for any other.
C24_OneHeaderPointer ==
    (Returned /\ op = "load_mapped_image" /\ NT_SUCCESS(ret))
    => /\ (image.nt_hdrs32 # 0) # (image.nt_hdrs64 # 0)
       /\ (image.nt_hdrs32 # 0) = (Magic = "HDR32")

\* C24 witness: a file of the 64-bit format was loaded, its view is mapped
\* and the structure holds the 64-bit pointer alone
C24_Witness ==
    /\ Returned
    /\ op = "load_mapped_image"
    /\ ret = STATUS_SUCCESS
    /\ Magic = "HDR64"
    /\ image.nt_hdrs32 = 0
    /\ image.nt_hdrs64 # 0
    /\ views = 1

\* the information query at the start of a loader walk is over and gave no
\* buffer
WalkQueryFailed ==
    /\ op \in Walkers
    /\ pc \notin {"idle", "qpi_size", "qpi_fetch", "qpi_ret"}
    /\ basic_info = 0

\* C25: when the information query at the start of a loader walk gives no
\* buffer, the walker returns a failure status: it does not crash, reads no
\* target memory and invokes no callback.
C25_FailedQueryReturnsStatus ==
    WalkQueryFailed
    => /\ Returned
       /\ ~NT_SUCCESS(ret)
       /\ reads = <<>>
       /\ calls = <<>>

(***************************************************************************)
(* The loader walk of a target that keeps loading and unloading modules    *)
(***************************************************************************)
WalkNext ==
    \/ EpmCall
    \/ Epm32Call
    \/ QpiAllocate
    \/ QpiFetch
    \/ EpmQueried
    \/ Epm32Queried
    \/ EpmReadLdr
    \/ Epm32ReadLdr
    \/ EpmReadLdrData
    \/ Epm32ReadLdrData
    \/ EpmLoop
    \/ Epm32Loop
    \/ TargetWrite

WalkConcurrent == Init /\ [][WalkNext]_vars

\* the entries of list f a walk would be given: those with a non-null base
Contents(f) == SelectSeq(LoadOrder(f), LAMBDA l : DllBase[l] # 0)

\* the entries the walk has delivered, in the order of delivery
DeliveredEntries == [i \in 1..Len(calls) |-> calls[i].rec]

\* every list the target has held since the walk read the list head
Instants == {snapshots[i] : i \in 1..Len(snapshots)} \cup {Flink}

C26_Step ==
    /\ (pc = "walk_loop" /\ reads' # reads) =>
          /\ Flink' = Flink
          /\ DllBase' = DllBase
          /\ snapshots' = snapshots
          /\ pc' = "walk_loop" => currentLink' = Flink[currentLink]
          /\ heap' # heap => heap' = free_local_buffer(heap, basic_info)
    /\ (pc = "walk_loop" /\ Flink' # Flink) =>
          /\ UNCHANGED <<pc, heap, reads, calls, currentLink, basic_info, ret>>

\* C26: the loader walk takes no lock and no snapshot of the target.  While a
\* walk is in its loop the target can change its list (nothing of the walk
\* holds the change off); every node read follows the forward link the target
\* holds at the instant of that read, not one it held before; the walk writes
\* nothing into the target and frees no buffer but its own basic_info, and a
\* change of the target leaves the walk's own state alone.
C26_NoLockNoSnapshot ==
    /\ [][C26_Step]_vars
    /\ []((/\ pc = "walk_loop"
            /\ process = "Remote"
            /\ Len(snapshots) < MaxWrites
            /\ WellFormed(Flink)) => ENABLED TargetWrite)

\* C26 witness: a torn snapshot.  Every read succeeded, the callback never
\* signalled match, the walk returned success, the target's list was well formed
\* at every instant, and the sequence of entries delivered is the contents of
\* the list at none of these instants
C26_Witness ==
    /\ op \in Walkers
    /\ Returned
    /\ ret = STATUS_SUCCESS
    /\ \A i \in 1..Len(calls) : ~NT_SUCCESS(calls[i].st)
    /\ Len(snapshots) > 0
    /\ \A f \in Instants : WellFormed(f) /\ DeliveredEntries # Contents(f)

\* a query step signalled that the buffer is too small
SignalsTooSmall(st) == st \in {STATUS_BUFFER_TOO_SMALL, STATUS_INFO_LENGTH_MISMATCH}

\* C27: enumerate_system_objects keeps the continuation cursor across a buffer
\* resize.  The first query step is passed cursor 0; the step after one that
\* signalled buffer-too-small is passed the same cursor; the step after a
\* successful one is passed the cursor plus one; between steps the cursor does
\* not change; and the entries delivered are entries 1, 2, 3, ... of the
\* directory, none twice and none skipped.
C27_CursorKeptAcrossResize ==
    op \in {"eso", "oe"} =>
       /\ fetches # <<>> =>
            /\ fetches[1].ctx = 0
            /\ uEnumCtx = fetches[Len(fetches)].ctx
                            + (IF NT_SUCCESS(fetches[Len(fetches)].st) THEN 1 ELSE 0)
       /\ \A i \in 1..(Len(fetches) - 1) :
            /\ SignalsTooSmall(fetches[i].st) => fetches[i + 1].ctx = fetches[i].ctx
            /\ NT_SUCCESS(fetches[i].st) => fetches[i + 1].ctx = fetches[i].ctx + 1
       /\ \A i \in 1..Len(calls) : calls[i].rec = i

\* C27 witness: the step for the second entry signalled too small, the buffer
\* was resized, the retried step was passed the same cursor and succeeded, and
\* the second entry was delivered after the first
C27_Witness ==
    /\ op = "eso"
    /\ \E i \in 1..(Len(fetches) - 1) :
         /\ SignalsTooSmall(fetches[i].st)
         /\ fetches[i].ctx = 1
         /\ fetches[i + 1].ctx = 1
         /\ NT_SUCCESS(fetches[i + 1].st)
         /\ fetches[i + 1].buf # fetches[i].buf
    /\ Len(calls) = 2
    /\ calls[1].rec = 1
    /\ calls[2].rec = 2

\* C28: enumerate_system_objects doubles the buffer on a too-small signal.  The
\* first query step is given a buffer of 0x100 bytes, and the buffer allocated
\* for the step that follows a too-small signal is exactly twice as large as
\* the buffer of the step that signalled it.
C28_BufferDoubledExactly ==
    op \in {"eso", "oe"} =>
       /\ (fetches # <<>> /\ fetches[1].buf # 0) => fetches[1].cap = InitialBufferSize
       /\ \A i \in 1..(Len(fetches) - 1) :
            (/\ SignalsTooSmall(fetches[i].st)
             /\ fetches[i].buf # 0
             /\ fetches[i + 1].buf # 0) => fetches[i + 1].cap = 2 * fetches[i].cap

\* some record of the process chain has the identifier asked for
PidInChain == \E k \in 1..records : UniqueProcessId(k) = pid

\* C29: enumerate_process_threads issues one system-information query and no
\* other system call; it invokes the thread callback only for the threads of
\* the record whose identifier equals pid, in array order, none after the
\* first that signals match; it stops walking the records at that record; and
\* when no record has pid it invokes the callback zero times and returns
\* STATUS_NOT_FOUND.
C29_ThreadsOfOneProcess ==
    (Returned /\ op = "ept" /\ callback /\ qret # 0) =>
       /\ \A i \in 1..Len(fetches) : fetches[i].fn = "qsi"
       /\ reads = <<>>
       /\ hDirectory = "unset"
       /\ \A i \in 1..Len(calls) :
            /\ UniqueProcessId(calls[i].rec) = pid
            /\ calls[i].thread = i
       /\ \A i \in 1..(Len(calls) - 1) : ~NT_SUCCESS(calls[i].st)
       /\ calls # <<>> => idx = calls[1].rec
       /\ ~PidInChain => (calls = <<>> /\ ret = STATUS_NOT_FOUND)

\* the links of the list nodes the walk has read, in the order of the reads
NodesRead ==
    LET nodes == SelectSeq(reads, LAMBDA r : r.what = "Node")
    IN [i \in 1..Len(nodes) |-> nodes[i].link]

\* every read of the walk so far succeeded
AllReadsSucceeded ==
    \A i \in 1..Len(reads) :
        /\ ~read_memory_faults(process, reads[i].st)
        /\ NT_SUCCESS(read_memory(process, reads[i].st))

\* a walk over a well-formed list of an initialized loader, with every read
\* succeeding and no callback signalling match
WellFormedWalk ==
    /\ op \in Walkers
    /\ Len(reads) >= 2
    /\ AllReadsSucceeded
    /\ Initialized
    /\ WellFormed(Flink)
    /\ NoMatch

\* C30: on a well-formed list of n entries, with all reads succeeding and a
\* callback that never signals match, a loader walker reads the entries in load
\* order, each once, and has delivered those of them with a non-null base in
\* that order; when it has returned it has made exactly n node reads, has
\* delivered every non-null-base entry and returns success.  An empty list
\* gives zero node reads and zero callbacks.
C30_WellFormedListWalkedOnce ==
    WellFormedWalk =>
       /\ Len(NodesRead) <= Len(LoadOrder(Flink))
       /\ NodesRead = SubSeq(LoadOrder(Flink), 1, Len(NodesRead))
       /\ DeliveredEntries = SelectSeq(NodesRead, LAMBDA l : DllBase[l] # 0)
       /\ pc \in {"walk_loop", "done"}
       /\ (pc = "walk_loop" /\ Len(NodesRead) = Len(LoadOrder(Flink)))
            => currentLink = StartLink
       /\ Returned =>
            /\ NodesRead = LoadOrder(Flink)
            /\ DeliveredEntries = Contents(Flink)
            /\ ret = STATUS_SUCCESS

\* C30 witness: a walk of a list that holds every node, one of them with a
\* null base, has returned after reading each node once
C30_Witness ==
    /\ WellFormedWalk
    /\ Returned
    /\ Len(LoadOrder(Flink)) = MaxNodes
    /\ Len(NodesRead) = MaxNodes
    /\ Len(calls) = MaxNodes - 1

\* C31: load_mapped_image closes every handle it opened exactly once before it
\* returns, on every path.  When it has returned, the file handle is closed
\* (once) unless the open failed, in which case nothing else was attempted;
\* the section handle is closed (once) unless no section was created; no
\* handle is left open, closed twice or closed without having been opened; and
\* the view a call has mapped is still mapped after both closes, until
\* unload_mapped_image unmaps it.
C31_HandlesClosedOnce ==
    op = "load_mapped_image" =>
       /\ Returned =>
            /\ fileHandle \in {"unset", "closed"}
            /\ sectionHandle \in {"unset", "closed"}
            /\ fileHandle = "unset" =>
                 (~NT_SUCCESS(ret) /\ sectionHandle = "unset" /\ views = 0)
            /\ NT_SUCCESS(ret) =>
                 (fileHandle = "closed" /\ sectionHandle = "closed")
       /\ fileHandle \in {"unset", "open", "closed"}
       /\ sectionHandle \in {"unset", "open", "closed"}
       /\ sectionHandle = "open" => fileHandle = "open"
       /\ (image.view_base # 0 /\ pc # "unloaded") => views = 1
       /\ pc = "unloaded" => views = 0

\* C31 witness: a successful call has returned with both handles closed and
\* its view still mapped
C31_Witness ==
    /\ op = "load_mapped_image"
    /\ Returned
    /\ NT_SUCCESS(ret)
    /\ fileHandle = "closed"
    /\ sectionHandle = "closed"
    /\ views = 1
    /\ image.view_base # 0

\* C32: the loader walk terminates on every finite remote structure.  While
\* all reads succeed and the callback never matches, a walker reads no list
\* node twice, so that it makes at most as many node reads as the target has
\* distinct nodes, whatever the forward links are.
C32_WalkBoundedByNodes ==
    (op \in Walkers /\ AllReadsSucceeded /\ NoMatch) =>
       /\ \A i, j \in 1..Len(NodesRead) : NodesRead[i] = NodesRead[j] => i = j
       /\ Len(NodesRead) <= MaxNodes

\* the functions that obtain their buffer from query_system_information
SystemQueryCallers == {"qsi", "esm", "ep", "ept"}

\* the allocations that have not been freed
LiveBuffers(h) == {b \in 1..Len(h) : h[b].frees = 0}

\* C33: buffer validity in query_system_information.  At every fetch the
\* buffer passed is a live allocation whose allocated size equals the length
\* passed with it; at most one query buffer is live at any moment; and the
\* buffer returned on success is the live buffer the last, successful fetch
\* filled.
C33_QueryBufferValid ==
    op \in SystemQueryCallers =>
       /\ \A i \in 1..Len(fetches) :
            /\ fetches[i].live
            /\ fetches[i].cap = fetches[i].len
       /\ Cardinality(LiveBuffers(heap)) <= 1
       /\ (pc = "qsi_ret" /\ qret # 0) =>
            /\ fetches # <<>>
            /\ NT_SUCCESS(fetches[Len(fetches)].st)
            /\ qret = fetches[Len(fetches)].buf
            /\ Live(heap, qret)
            /\ heap[qret].filled

\* the functions that run the loop of enumerate_system_objects
DirectoryWalkers == {"eso", "oe"}

\* C34: buffer bound in enumerate_system_objects.  At every directory query
\* step the length passed does not exceed the allocated size of the buffer
\* passed with it and that buffer is live; and the predicate is invoked only
\* on the live buffer that the last query step, a successful one, has filled.
C34_DirectoryBufferBound ==
    op \in DirectoryWalkers =>
       /\ \A i \in 1..Len(fetches) :
            /\ fetches[i].len <= fetches[i].cap
            /\ fetches[i].live
       /\ pc = "eso_callback" =>
            /\ fetches # <<>>
            /\ NT_SUCCESS(fetches[Len(fetches)].st)
            /\ pObjBuffer = fetches[Len(fetches)].buf
            /\ Live(heap, pObjBuffer)
            /\ heap[pObjBuffer].filled

\* a step of a running object_exists that changes the caller's variable
C35_Step ==
    (op = "oe" /\ pc # "idle" /\ found' # found) =>
       /\ found'
       /\ pc = "eso_callback"
       /\ Len(calls') = Len(calls) + 1
       /\ NT_SUCCESS(calls'[Len(calls')].st)
       /\ NameMatches(object, Name[calls'[Len(calls')].rec])

TrulyContains(s, r) ==
    s.VirtualAddress <= r /\ r - s.VirtualAddress < s.SizeOfRawData

\* C36: whatever the section table, sections whose VirtualAddress +
\* SizeOfRawData exceeds the largest ULONG included, the section
\* mapped_image_rva_to_section returns for rva contains it (VirtualAddress <=
\* rva and rva - VirtualAddress < SizeOfRawData), and an rva that some section
\* so contains is found.
C36_WrapAroundHarmless ==
    (Returned /\ op = "rva_to_section") =>
       /\ ret # 0 => TrulyContains(image.sections[ret], rva)
       /\ (\E i \in 1..image.section_count : TrulyContains(image.sections[i], rva))
            => ret # 0

====
